---- MODULE Spec2Model ----
(***************************************************************************)
(* Model of three components of the distributed execution substrate:       *)
(*   - IBVerbsMessagePool   (ibverbs_message_pool.cpp)                      *)
(*   - AccessBlobArgCbPhyInstrOperand (access_blob_arg_cb_phy_instr_operand)*)
(*   - ipc::SharedMemory    (shared_memory.cpp)                             *)
(* Each component has its own specification over the shared variable       *)
(* tuple; the variables of the other components stay at their initial      *)
(* values.                                                                 *)
(***************************************************************************)
EXTENDS Integers, Sequences, FiniteSets, TLC

(***************************************************************************)
(* Bounds                                                                  *)
(***************************************************************************)
\* number of threads calling into one pool
NumThreads == 2
\* largest batch size num_msg_per_bluk_allocation_ the constructor is given
MaxB == 4
\* cap on the number of bulk allocations of one run
MaxBatches == 2
\* cap on the number of GetMessage calls of one run
MaxGets == 5
\* sizeof(ActorMsg), in abstract address units
SizeofActorMsg == 2

Threads == 1..NumThreads
NoThread == 0

VARIABLES
  \* ---- IBVerbsMessagePool fields
  num_msg_per_bluk_allocation_,
  message_buf_,          \* free-list (std::vector<ActorMsgMR*>), back = last
  ibv_mr_buf_,           \* registered regions (std::vector<ibv_mr*>)
  memory_buf_,           \* raw allocations (std::vector<char*>)
  message_buf_mutex_,    \* owner of the mutex, NoThread when free
  \* ---- per-thread control state and locals
  pc, addr, mr, idx, msg_mr,
  \* ---- environment of the pool
  leased,                \* buffers returned by GetMessage, not yet passed to PutMessage
  heap,                  \* live malloc blocks
  registered,            \* regions registered with the adapter
  deregLog, freeLog,     \* the ibv_dereg_mr(mr) and free(addr) calls made so far
  poolState,             \* "alive", "destroying", "destroyed"
  dtorPc, dtorIdx,
  aborted,               \* "no", or the CHECK that terminated the process
  \* ---- history
  nallocs, ngets, nputs, nextMsgId,
  emptyAtLock, didAlloc, snap,
  peak,                  \* largest number of buffers that were out of the free-list at once
  \* ---- AccessBlobArgCbPhyInstrOperand fields
  modifier_,
  compute_local_dep_object_,
  \* ---- the scheduler's use of one operand
  enumLog,               \* the enumerators called so far, in order
  visits,                \* the DoEach(infer, compute) invocations so far, in order
  \* ---- POSIX shared-memory state
  shm_ns,                \* name -> object id, NoObj when the name is absent
  shm_obj,               \* object id -> [size, bytes]
  nobjs,                 \* objects created so far
  mapped,                \* caller -> object its mapping refers to, NoObj when unmapped
  \* ---- SharedMemory instance held by each caller
  inst,                  \* "none", "live", "destroyed"
  buf_, name_, size_,
  \* ---- per-caller control state and locals of Open / Close / Unlink
  spc, fd, shm_name, shm_size, ptr,
  result,                \* what the last finished call returned
  shmAborted,
  \* ---- history
  nopens,                \* Open calls so far
  argName,               \* the name a caller passed to Open, NoName for none
  created,               \* the object the caller's shm_open created
  munmaps,               \* munmap calls made through the caller's instance
  unmaps,                \* mappings of the caller's instance that munmap removed
  creators,              \* object id -> shm_open calls that created it
  unlinked,              \* names a shm_unlink removed and no shm_open has created since
  abandoned,             \* object id -> the stage at which the Open that created it failed
  \* ---- a call of promoteTypes(a, b), and a third type to combine with
  pt_a, pt_b, pt_c,
  pt_r,                  \* the returned type, NoDataType before the call
  \* ---- FunctionLibrary: the maps PackedFuncMap<FType>::Get() of all signatures
  functors,              \* set of <<signature, func_name, Func>> entries
  lib_aborted,           \* a CHECK of the library terminated the process
  lib_last,              \* the last add_functor / find call and what it returned
  lib_ncalls,
  \* ---- a call of IsContinuosSubspace(indices)
  cs_indices,            \* per entry of the tuple: TRUE when it holds a tensor, FALSE when null
  cs_i, cs_token,
  cs_ret,                \* "none" while the loop runs, then the returned bool
  \* ---- a call of ConcatFunctor::operator()(inputs, axis, max_dim_size)
  cat_n,                 \* inputs.size() at the current recursion level
  cat_i,                 \* loop variable i
  cat_outputs,           \* outputs.size()
  cat_size,              \* size of the chunk dispatched last, 0 before the first
  cat_depth,             \* recursion depth
  cat_state,             \* "run", "done", "error", or "segv" after a null op expression was used
  \* ---- a call of SplitFunctor::operator()(x, split_size, dim)
  sp_dim_size, sp_split_size,
  sp_num_splits, sp_last_split_size, sp_i,
  sp_splits,             \* the Narrow(x, dim, start, length) calls made, in order
  sp_state               \* "call", "compute", "loop", "done", "error", or "sigfpe"

poolVars == <<num_msg_per_bluk_allocation_, message_buf_, ibv_mr_buf_, memory_buf_,
              message_buf_mutex_, pc, addr, mr, idx, msg_mr, leased, heap, registered,
              deregLog, freeLog, poolState, dtorPc, dtorIdx, aborted,
              nallocs, ngets, nputs, nextMsgId, emptyAtLock, didAlloc, snap, peak>>

opVars == <<modifier_, compute_local_dep_object_, enumLog, visits>>

shmVars == <<shm_ns, shm_obj, nobjs, mapped, inst, buf_, name_, size_,
             spc, fd, shm_name, shm_size, ptr, result, shmAborted,
             nopens, argName, created, munmaps, unmaps, creators, unlinked, abandoned>>

ptVars == <<pt_a, pt_b, pt_c, pt_r>>

flVars == <<functors, lib_aborted, lib_last, lib_ncalls>>

csVars == <<cs_indices, cs_i, cs_token, cs_ret>>

catVars == <<cat_n, cat_i, cat_outputs, cat_size, cat_depth, cat_state>>

spVars == <<sp_dim_size, sp_split_size, sp_num_splits, sp_last_split_size, sp_i,
            sp_splits, sp_state>>

\* the functional layer: promoteTypes, FunctionLibrary, IsContinuosSubspace, ConcatFunctor, SplitFunctor
fnVars == <<ptVars, flVars, csVars, catVars, spVars>>

vars == <<poolVars, opVars, shmVars, fnVars>>

(***************************************************************************)
(* Functional layer: states in which the component is not in use           *)
(***************************************************************************)
kInvalidDataType == 0
\* pt_r before promoteTypes returned
NoDataType == 0 - 1

PromoteParked ==
  /\ pt_a = kInvalidDataType /\ pt_b = kInvalidDataType /\ pt_c = kInvalidDataType
  /\ pt_r = NoDataType

\* no functor: what find yields when it returns an error, and add_functor always
NoFunc == 0
NoCall == [op |-> "none", sig |-> 0, name |-> 0, ok |-> TRUE, func |-> NoFunc]

\* the maps as they are before any registration
LibParked ==
  /\ functors = {}
  /\ lib_aborted = FALSE
  /\ lib_last = NoCall
  /\ lib_ncalls = 0

SubspaceParked ==
  /\ cs_indices = <<>>
  /\ cs_i = 0
  /\ cs_token = 0
  /\ cs_ret = "none"

ConcatParked ==
  /\ cat_n = 0
  /\ cat_i = 0
  /\ cat_outputs = 0
  /\ cat_size = 0
  /\ cat_depth = 0
  /\ cat_state = "done"

SplitParked ==
  /\ sp_dim_size = 0
  /\ sp_split_size = 1
  /\ sp_num_splits = 0
  /\ sp_last_split_size = 0
  /\ sp_i = 0
  /\ sp_splits = <<>>
  /\ sp_state = "done"

FnParked == PromoteParked /\ LibParked /\ SubspaceParked /\ ConcatParked /\ SplitParked

(***************************************************************************)
(* AccessBlobArgCbPhyInstrOperand                                          *)
(***************************************************************************)
\* the modifier strings a caller may pass (SyncAccessTensorWithTimeOut takes
\* any std::string); the last one is none of the three access tags
Modifiers == {"const", "mut", "mut2", "read"}
\* number of LocalDepObjects an operand may refer to
NumDepObjects == 2
\* cap on the number of enumerator calls made on one operand
MaxEnumCalls == 3

DepObjects == 1..NumDepObjects
\* the infer argument: nullptr
NullMirroredObject == [mirrored_of |-> 0]
\* compute_local_dep_object_->mut_mirrored_object()
MutMirroredObject(dep) == [mirrored_of |-> dep]

\* modifier_ == "const", modifier_ == "mut", modifier_ == "mut2"
IsNotMutModifier(m) == m \notin {"mut", "mut2"}
IsConstModifier(m) == m = "const"
IsMutPrefix(m) == m \in {"mut", "mut2"}
IsMutModifier(m) == m = "mut"
IsMut2Modifier(m) == m = "mut2"

\* DoEach(nullptr, compute_local_dep_object_->mut_mirrored_object())
DoEach(by, infer, compute) == Append(visits, [by |-> by, infer |-> infer, compute |-> compute])

\* the operand as constructed: it keeps the modifier and the dep object it is given
OperandFields ==
  /\ modifier_ \in Modifiers
  /\ compute_local_dep_object_ \in DepObjects
  /\ enumLog = <<>>
  /\ visits = <<>>

\* no operand in use
OperandParked ==
  /\ modifier_ = "const"
  /\ compute_local_dep_object_ = 1
  /\ enumLog = <<>>
  /\ visits = <<>>

ForEachConstMirroredObject ==
  /\ Len(enumLog) < MaxEnumCalls
  /\ enumLog' = Append(enumLog, "Const")
  /\ visits' = IF IsConstModifier(modifier_)
                 THEN DoEach("Const", NullMirroredObject,
                             MutMirroredObject(compute_local_dep_object_))
                 ELSE visits
  /\ UNCHANGED <<modifier_, compute_local_dep_object_>>
  /\ UNCHANGED <<poolVars, shmVars, fnVars>>

ForEachMutMirroredObject ==
  /\ Len(enumLog) < MaxEnumCalls
  /\ enumLog' = Append(enumLog, "Mut")
  /\ visits' = IF IsMutModifier(modifier_)
                 THEN DoEach("Mut", NullMirroredObject,
                             MutMirroredObject(compute_local_dep_object_))
                 ELSE visits
  /\ UNCHANGED <<modifier_, compute_local_dep_object_>>
  /\ UNCHANGED <<poolVars, shmVars, fnVars>>

ForEachMut2MirroredObject ==
  /\ Len(enumLog) < MaxEnumCalls
  /\ enumLog' = Append(enumLog, "Mut2")
  /\ visits' = IF IsMut2Modifier(modifier_)
                 THEN DoEach("Mut2", NullMirroredObject,
                             MutMirroredObject(compute_local_dep_object_))
                 ELSE visits
  /\ UNCHANGED <<modifier_, compute_local_dep_object_>>
  /\ UNCHANGED <<poolVars, shmVars, fnVars>>

OperandNext ==
  \/ ForEachConstMirroredObject
  \/ ForEachMutMirroredObject
  \/ ForEachMut2MirroredObject

(***************************************************************************)
(* ipc::SharedMemory                                                       *)
(***************************************************************************)
\* callers (threads or processes) that open shared memory
NumCallers == 2
\* names in the shared-memory namespace, given by callers or generated
NumNames == 2
\* largest shm_size a caller asks for
MaxShmSize == 1
\* cap on the number of Open calls of one run
MaxOpens == 2
\* cap on the number of munmap calls made through one instance
MaxUnmaps == 2

Callers == 1..NumCallers
Names == 1..NumNames
NoName == 0
NoObj == 0
Objs == 1..MaxOpens
\* what the last finished call returned: ret is the value of the failed
\* expression handed to PCHECK_OR_RETURN, errno the error number of the failed
\* system call, closes the number of close(fd) calls the call made
NoResult == [by |-> 0, op |-> "none", ok |-> TRUE, ret |-> "0", errno |-> "0", closes |-> 0]
Ok(c, op, n) == [by |-> c, op |-> op, ok |-> TRUE, ret |-> "0", errno |-> "0", closes |-> n]
Failed(c, op, r, e, n) == [by |-> c, op |-> op, ok |-> FALSE, ret |-> r, errno |-> e, closes |-> n]

\* PCHECK_OR_RETURN(v): the function goes on when v is 0 and returns an error
\* otherwise
PCheckPasses(v) == v = "0"

Zeros(n) == [k \in 1..n |-> 0]
\* std::memset(ptr, 0, shm_size)
NoMemset(bytes, n) == bytes
Memset(bytes, n) == [k \in 1..Len(bytes) |-> IF k <= n THEN 0 ELSE bytes[k]]

\* posix_fallocate(fd, 0, len) on an object: the size becomes at least len,
\* new bytes read as zero
Fallocate(o, len) ==
  IF len <= o.size THEN o
  ELSE [size |-> len, bytes |-> o.bytes \o Zeros(len - o.size)]

\* shm_open(name, (create ? O_CREAT : 0) | O_EXCL | O_RDWR, ...): the errno it
\* reports from the namespace alone, "0" when the namespace allows the call
OpenIgnoresExisting(name, create) ==
  IF ~create /\ shm_ns[name] = NoObj THEN "ENOENT" ELSE "0"
ShmOpenErrno(name, create) ==
  IF create /\ shm_ns[name] # NoObj THEN "EEXIST"
  ELSE IF ~create /\ shm_ns[name] = NoObj THEN "ENOENT"
  ELSE "0"

\* if (err != EEXIST) { return err; }: the loop of ShmOpen(&shm_name, &fd) goes
\* round again on err
RetryOnAny(err) == err # "0"
RetryOn(err) == err = "EEXIST"

\* st.st_size of the object behind a descriptor
StSizeZero(o) == 0
StSize(o) == shm_obj[o].size

\* the close(fd) calls Open has made when it returns at a stage: none when
\* shm_open failed, the one of ReturnEmptyStr or of the line before memset /
\* return otherwise
FdClosesLeak(stage) == IF stage \in {"shm_open", "mmap"} THEN 0 ELSE 1
FdCloses(stage) == IF stage = "shm_open" THEN 0 ELSE 1

\* shm_unlink(name): the name leaves the namespace, the object and the
\* mappings of it stay
KeepName(ns, n) == ns
RemoveName(ns, n) == [ns EXCEPT ![n] = NoObj]
UnlinkDestroys(objs, o) == [objs EXCEPT ![o] = [size |-> 0, bytes |-> <<>>]]
UnlinkKeepsObject(objs, o) == objs

\* ReturnEmptyStr([&] { close(fd); }): what the failure path of Open does to
\* the namespace
UnlinkAfterFailedOpen(ns, n) == [ns EXCEPT ![n] = NoObj]
AfterFailedOpen(ns, n) == ns

\* if (buf_ != nullptr) of the destructor
DtorAlways(c) == TRUE
DtorGuard(c) == buf_[c] # NoObj

\* opt_shm_name.has_value() is false: the name is generated
Anon(c) == argName[c] = NoName

\* the shm_open of Open sits in the retry loop of ShmOpen(&shm_name, &fd) when
\* the name is generated, and is the single call ShmOpen(shm_name, true, &fd)
\* when the caller gave the name
AlwaysInRetryLoop(c) == TRUE
InRetryLoop(c) == Anon(c)

ShmParked ==
  /\ shm_ns = [n \in Names |-> NoObj]
  /\ shm_obj = [o \in Objs |-> [size |-> 0, bytes |-> <<>>]]
  /\ nobjs = 0
  /\ mapped = [c \in Callers |-> NoObj]
  /\ inst = [c \in Callers |-> "none"]
  /\ buf_ = [c \in Callers |-> NoObj]
  /\ name_ = [c \in Callers |-> NoName]
  /\ size_ = [c \in Callers |-> 0]
  /\ spc = [c \in Callers |-> "idle"]
  /\ fd = [c \in Callers |-> NoObj]
  /\ shm_name = [c \in Callers |-> NoName]
  /\ shm_size = [c \in Callers |-> 0]
  /\ ptr = [c \in Callers |-> NoObj]
  /\ result = NoResult
  /\ shmAborted = FALSE
  /\ nopens = 0
  /\ argName = [c \in Callers |-> NoName]
  /\ created = [c \in Callers |-> NoObj]
  /\ munmaps = [c \in Callers |-> 0]
  /\ unmaps = [c \in Callers |-> 0]
  /\ creators = [o \in Objs |-> 0]
  /\ unlinked = {}
  /\ abandoned = [o \in Objs |-> "none"]

\* the locals of a call that returned
ClearLocals(c) ==
  /\ fd' = [fd EXCEPT ![c] = NoObj]
  /\ shm_name' = [shm_name EXCEPT ![c] = NoName]
  /\ shm_size' = [shm_size EXCEPT ![c] = 0]
  /\ ptr' = [ptr EXCEPT ![c] = NoObj]
  /\ argName' = [argName EXCEPT ![c] = NoName]
  /\ created' = [created EXCEPT ![c] = NoObj]

\* a caller without an instance calls SharedMemory::Open(opt_shm_name, shm_size)
CallOpenCreate(c) ==
  /\ ~shmAborted
  /\ spc[c] = "idle"
  /\ inst[c] # "live"
  /\ nopens < MaxOpens
  /\ \E n \in Names \cup {NoName}, sz \in 0..MaxShmSize :
       /\ argName' = [argName EXCEPT ![c] = n]
       /\ shm_name' = [shm_name EXCEPT ![c] = n]
       /\ shm_size' = [shm_size EXCEPT ![c] = sz]
  /\ spc' = [spc EXCEPT ![c] = "c_open"]
  /\ nopens' = nopens + 1
  /\ inst' = [inst EXCEPT ![c] = "none"]
  /\ munmaps' = [munmaps EXCEPT ![c] = 0]
  /\ unmaps' = [unmaps EXCEPT ![c] = 0]
  /\ UNCHANGED <<shm_ns, shm_obj, nobjs, mapped, buf_, name_, size_, fd, ptr, result,
                 shmAborted, created>>
  /\ UNCHANGED <<poolVars, opVars, fnVars>>
  /\ UNCHANGED abandoned
  /\ UNCHANGED creators
  /\ UNCHANGED unlinked

\* ShmOpen(shm_name, true, &fd) for a given name; one round of the loop of
\* ShmOpen(&shm_name, &fd) for a generated name
OpenCreateShmOpen(c) ==
  /\ ~shmAborted
  /\ spc[c] = "c_open"
  /\ \E n \in (IF Anon(c) THEN Names ELSE {shm_name[c]}), sysok \in BOOLEAN :
       LET err == IF ShmOpenErrno(n, TRUE) # "0" THEN ShmOpenErrno(n, TRUE)
                  ELSE IF sysok THEN "0" ELSE "EMFILE"
           \* O_CREAT makes a new, empty object unless the name has one
           obj == IF shm_ns[n] = NoObj THEN nobjs + 1 ELSE shm_ns[n]
       IN
       IF PCheckPasses(err)
         THEN /\ nobjs' = IF shm_ns[n] = NoObj THEN nobjs + 1 ELSE nobjs
              /\ shm_ns' = [shm_ns EXCEPT ![n] = obj]
              /\ fd' = [fd EXCEPT ![c] = obj]
              /\ created' = [created EXCEPT ![c] = obj]
              /\ creators' = [creators EXCEPT ![obj] = creators[obj] + 1]
              /\ unlinked' = unlinked \ {n}
              /\ shm_name' = [shm_name EXCEPT ![c] = n]
              /\ spc' = [spc EXCEPT ![c] = "c_fallocate"]
              /\ UNCHANGED <<result, shm_size, ptr, argName>>
         ELSE IF RetryOn(err) /\ InRetryLoop(c)
           THEN \* if (err != EEXIST) { return err; } -- otherwise loop
                /\ shm_name' = [shm_name EXCEPT ![c] = n]
                /\ UNCHANGED <<nobjs, shm_ns, fd, created, creators, unlinked, spc, result,
                               shm_size, ptr, argName>>
           ELSE /\ result' = Failed(c, "create", err, err, FdCloses("shm_open"))
                /\ spc' = [spc EXCEPT ![c] = "idle"]
                /\ ClearLocals(c)
                /\ UNCHANGED <<nobjs, shm_ns, creators, unlinked>>
  /\ UNCHANGED <<shm_obj, mapped, inst, buf_, name_, size_, shmAborted, nopens, munmaps>>
  /\ UNCHANGED <<poolVars, opVars, fnVars>>
  /\ UNCHANGED abandoned
  /\ UNCHANGED unmaps

\* PCHECK_OR_RETURN(posix_fallocate(fd, 0, shm_size)) << ReturnEmptyStr([&] { close(fd); });
OpenCreateFallocate(c) ==
  /\ ~shmAborted
  /\ spc[c] = "c_fallocate"
  /\ \E sysok \in BOOLEAN :
       LET err == IF shm_size[c] = 0 THEN "EINVAL" ELSE IF sysok THEN "0" ELSE "ENOSPC" IN
       IF PCheckPasses(err)
         THEN /\ shm_obj' = [shm_obj EXCEPT ![fd[c]] = Fallocate(shm_obj[fd[c]], shm_size[c])]
              /\ spc' = [spc EXCEPT ![c] = "c_mmap"]
              /\ UNCHANGED <<result, fd, shm_name, shm_size, ptr, argName, created>>
              /\ UNCHANGED <<shm_ns, abandoned>>
         ELSE /\ result' = Failed(c, "create", err, err, FdCloses("fallocate"))
              /\ spc' = [spc EXCEPT ![c] = "idle"]
              /\ shm_ns' = AfterFailedOpen(shm_ns, shm_name[c])
              /\ abandoned' = [abandoned EXCEPT ![created[c]] = "fallocate"]
              /\ ClearLocals(c)
              /\ UNCHANGED shm_obj
  /\ UNCHANGED <<nobjs, mapped, inst, buf_, name_, size_, shmAborted, nopens, munmaps>>
  /\ UNCHANGED <<poolVars, opVars, fnVars>>
  /\ UNCHANGED <<unmaps, creators>>
  /\ UNCHANGED unlinked

\* ShmMap(fd, shm_size, &ptr): mmap(NULL, shm_size, PROT_READ | PROT_WRITE, MAP_SHARED, fd, 0),
\* and on failure the close(fd) of the caller's ReturnEmptyStr
ShmMap(c, nextpc, op) ==
  \E sysok \in BOOLEAN :
    LET err == IF shm_size[c] = 0 THEN "EINVAL" ELSE IF sysok THEN "0" ELSE "ENOMEM" IN
    IF PCheckPasses(err)
      THEN /\ ptr' = [ptr EXCEPT ![c] = fd[c]]
           /\ mapped' = [mapped EXCEPT ![c] = fd[c]]
           /\ spc' = [spc EXCEPT ![c] = nextpc]
           /\ UNCHANGED <<result, fd, shm_name, shm_size, argName, created>>
      ELSE /\ result' = Failed(c, op, err, err, FdCloses("mmap"))
           /\ spc' = [spc EXCEPT ![c] = "idle"]
           /\ ClearLocals(c)
           /\ UNCHANGED mapped

\* PCHECK_OR_RETURN(ShmMap(fd, shm_size, &ptr)) << ReturnEmptyStr([&] { close(fd); });
OpenCreateMmap(c) ==
  /\ ~shmAborted
  /\ spc[c] = "c_mmap"
  /\ ShmMap(c, "c_finish", "create")
  /\ shm_ns' = IF spc'[c] = "idle" THEN AfterFailedOpen(shm_ns, shm_name[c]) ELSE shm_ns
  /\ abandoned' = IF spc'[c] = "idle" THEN [abandoned EXCEPT ![created[c]] = "mmap"]
                  ELSE abandoned
  /\ UNCHANGED <<shm_obj, nobjs, inst, buf_, name_, size_, shmAborted, nopens, munmaps>>
  /\ UNCHANGED <<poolVars, opVars, fnVars>>
  /\ UNCHANGED <<unmaps, creators>>
  /\ UNCHANGED unlinked

\* close(fd); std::memset(ptr, 0, shm_size); return new SharedMemory(ptr, shm_name, shm_size);
OpenCreateFinish(c) ==
  /\ ~shmAborted
  /\ spc[c] = "c_finish"
  /\ shm_obj' = [shm_obj EXCEPT ![ptr[c]].bytes = Memset(shm_obj[ptr[c]].bytes, shm_size[c])]
  /\ inst' = [inst EXCEPT ![c] = "live"]
  /\ buf_' = [buf_ EXCEPT ![c] = ptr[c]]
  /\ name_' = [name_ EXCEPT ![c] = shm_name[c]]
  /\ size_' = [size_ EXCEPT ![c] = shm_size[c]]
  /\ result' = Ok(c, "create", FdCloses("return"))
  /\ spc' = [spc EXCEPT ![c] = "idle"]
  /\ ClearLocals(c)
  /\ UNCHANGED <<shm_ns, nobjs, mapped, shmAborted, nopens, munmaps>>
  /\ UNCHANGED <<poolVars, opVars, fnVars>>
  /\ UNCHANGED abandoned
  /\ UNCHANGED <<unmaps, creators>>
  /\ UNCHANGED unlinked

\* a caller without an instance calls SharedMemory::Open(shm_name)
CallOpenAttach(c) ==
  /\ ~shmAborted
  /\ spc[c] = "idle"
  /\ inst[c] # "live"
  /\ nopens < MaxOpens
  /\ \E n \in Names :
       /\ argName' = [argName EXCEPT ![c] = n]
       /\ shm_name' = [shm_name EXCEPT ![c] = n]
  /\ spc' = [spc EXCEPT ![c] = "a_open"]
  /\ nopens' = nopens + 1
  /\ inst' = [inst EXCEPT ![c] = "none"]
  /\ munmaps' = [munmaps EXCEPT ![c] = 0]
  /\ unmaps' = [unmaps EXCEPT ![c] = 0]
  /\ UNCHANGED <<shm_ns, shm_obj, nobjs, mapped, buf_, name_, size_, fd, shm_size, ptr,
                 result, shmAborted, created>>
  /\ UNCHANGED <<poolVars, opVars, fnVars>>
  /\ UNCHANGED abandoned
  /\ UNCHANGED creators
  /\ UNCHANGED unlinked

\* PCHECK_OR_RETURN(ShmOpen(shm_name, false, &fd));
OpenAttachShmOpen(c) ==
  /\ ~shmAborted
  /\ spc[c] = "a_open"
  /\ \E sysok \in BOOLEAN :
       LET err == IF ShmOpenErrno(shm_name[c], FALSE) # "0" THEN ShmOpenErrno(shm_name[c], FALSE)
                  ELSE IF sysok THEN "0" ELSE "EMFILE"
       IN
       IF PCheckPasses(err)
         THEN /\ fd' = [fd EXCEPT ![c] = shm_ns[shm_name[c]]]
              /\ spc' = [spc EXCEPT ![c] = "a_fstat"]
              /\ UNCHANGED <<result, shm_name, shm_size, ptr, argName, created>>
         ELSE /\ result' = Failed(c, "attach", err, err, FdCloses("shm_open"))
              /\ spc' = [spc EXCEPT ![c] = "idle"]
              /\ ClearLocals(c)
  /\ UNCHANGED <<shm_ns, shm_obj, nobjs, mapped, inst, buf_, name_, size_, shmAborted,
                 nopens, munmaps>>
  /\ UNCHANGED <<poolVars, opVars, fnVars>>
  /\ UNCHANGED abandoned
  /\ UNCHANGED <<unmaps, creators>>
  /\ UNCHANGED unlinked

\* PCHECK_OR_RETURN(fstat(fd, &st)) << ReturnEmptyStr([&] { close(fd); }); shm_size = st.st_size;
OpenAttachFstat(c) ==
  /\ ~shmAborted
  /\ spc[c] = "a_fstat"
  /\ \E sysok \in BOOLEAN :
       IF PCheckPasses(IF sysok THEN "0" ELSE "-1")
         THEN /\ shm_size' = [shm_size EXCEPT ![c] = StSize(fd[c])]
              /\ spc' = [spc EXCEPT ![c] = "a_mmap"]
              /\ UNCHANGED <<result, fd, shm_name, ptr, argName, created>>
         ELSE /\ result' = Failed(c, "attach", "-1", "EOVERFLOW", FdCloses("fstat"))
              /\ spc' = [spc EXCEPT ![c] = "idle"]
              /\ ClearLocals(c)
  /\ UNCHANGED <<shm_ns, shm_obj, nobjs, mapped, inst, buf_, name_, size_, shmAborted,
                 nopens, munmaps>>
  /\ UNCHANGED <<poolVars, opVars, fnVars>>
  /\ UNCHANGED abandoned
  /\ UNCHANGED <<unmaps, creators>>
  /\ UNCHANGED unlinked

\* PCHECK_OR_RETURN(ShmMap(fd, shm_size, &ptr)) << ReturnEmptyStr([&] { close(fd); });
OpenAttachMmap(c) ==
  /\ ~shmAborted
  /\ spc[c] = "a_mmap"
  /\ ShmMap(c, "a_finish", "attach")
  /\ UNCHANGED <<shm_ns, shm_obj, nobjs, inst, buf_, name_, size_, shmAborted, nopens, munmaps>>
  /\ UNCHANGED <<poolVars, opVars, fnVars>>
  /\ UNCHANGED abandoned
  /\ UNCHANGED <<unmaps, creators>>
  /\ UNCHANGED unlinked

\* close(fd); return new SharedMemory(ptr, shm_name, shm_size);
OpenAttachFinish(c) ==
  /\ ~shmAborted
  /\ spc[c] = "a_finish"
  /\ inst' = [inst EXCEPT ![c] = "live"]
  /\ buf_' = [buf_ EXCEPT ![c] = ptr[c]]
  /\ name_' = [name_ EXCEPT ![c] = shm_name[c]]
  /\ size_' = [size_ EXCEPT ![c] = shm_size[c]]
  /\ result' = Ok(c, "attach", FdCloses("return"))
  /\ spc' = [spc EXCEPT ![c] = "idle"]
  /\ ClearLocals(c)
  /\ UNCHANGED <<shm_ns, shm_obj, nobjs, mapped, shmAborted, nopens, munmaps>>
  /\ UNCHANGED <<poolVars, opVars, fnVars>>
  /\ UNCHANGED abandoned
  /\ UNCHANGED <<unmaps, creators>>
  /\ UNCHANGED unlinked

\* the owner of a mapped instance stores a non-zero byte through mut_buf()
WriteByte(c) ==
  /\ ~shmAborted
  /\ spc[c] = "idle"
  /\ inst[c] = "live"
  /\ buf_[c] # NoObj
  /\ \E k \in 1..size_[c] :
       /\ shm_obj[buf_[c]].bytes[k] = 0
       /\ shm_obj' = [shm_obj EXCEPT ![buf_[c]].bytes[k] = 1]
  /\ UNCHANGED <<shm_ns, nobjs, mapped, inst, buf_, name_, size_, spc, fd, shm_name, shm_size,
                 ptr, result, shmAborted, nopens, argName, created, munmaps>>
  /\ UNCHANGED <<poolVars, opVars, fnVars>>
  /\ UNCHANGED abandoned
  /\ UNCHANGED <<unmaps, creators>>
  /\ UNCHANGED unlinked

\* munmap(buf_, size_): unmapping a range without mapped pages is not an error
Munmap(c, sysok) ==
  IF buf_[c] # NoObj /\ ~sysok THEN [ret |-> "-1", errno |-> "EINVAL"]
  ELSE [ret |-> "0", errno |-> "0"]

\* Maybe<void> SharedMemory::Close(): PCHECK_OR_RETURN(munmap(buf_, size_)); buf_ = nullptr;
Close(c) ==
  /\ ~shmAborted
  /\ spc[c] = "idle"
  /\ inst[c] = "live"
  /\ munmaps[c] < MaxUnmaps
  /\ munmaps' = [munmaps EXCEPT ![c] = munmaps[c] + 1]
  /\ \E sysok \in BOOLEAN :
       IF PCheckPasses(Munmap(c, sysok).ret)
         THEN /\ mapped' = [mapped EXCEPT ![c] = IF buf_[c] # NoObj THEN NoObj ELSE mapped[c]]
              /\ unmaps' = [unmaps EXCEPT ![c] = IF buf_[c] # NoObj THEN unmaps[c] + 1
                                                 ELSE unmaps[c]]
              /\ buf_' = [buf_ EXCEPT ![c] = NoObj]
              /\ result' = Ok(c, "close", 0)
         ELSE /\ result' = Failed(c, "close", Munmap(c, sysok).ret, Munmap(c, sysok).errno, 0)
              /\ UNCHANGED <<mapped, unmaps, buf_>>
  /\ UNCHANGED <<shm_ns, shm_obj, nobjs, inst, name_, size_, spc, fd, shm_name, shm_size,
                 ptr, shmAborted, nopens, argName, created>>
  /\ UNCHANGED <<poolVars, opVars, fnVars>>
  /\ UNCHANGED abandoned
  /\ UNCHANGED creators
  /\ UNCHANGED unlinked

\* shm_unlink(name)
ShmUnlink(n, sysok) ==
  IF shm_ns[n] = NoObj THEN [ret |-> "-1", errno |-> "ENOENT"]
  ELSE IF ~sysok THEN [ret |-> "-1", errno |-> "EACCES"]
  ELSE [ret |-> "0", errno |-> "0"]

\* Maybe<void> SharedMemory::UnlinkByName(name): PCHECK_OR_RETURN(shm_unlink(name.c_str()));
UnlinkByNameBody(c, n, op) ==
  \E sysok \in BOOLEAN :
    IF PCheckPasses(ShmUnlink(n, sysok).ret)
      THEN /\ shm_ns' = RemoveName(shm_ns, n)
           /\ shm_obj' = UnlinkKeepsObject(shm_obj, shm_ns[n])
           /\ unlinked' = unlinked \cup {n}
           /\ result' = Ok(c, op, 0)
      ELSE /\ result' = Failed(c, op, ShmUnlink(n, sysok).ret, ShmUnlink(n, sysok).errno, 0)
           /\ UNCHANGED <<shm_ns, shm_obj, unlinked>>

UnlinkByName(c) ==
  /\ ~shmAborted
  /\ spc[c] = "idle"
  /\ \E n \in Names : UnlinkByNameBody(c, n, "unlink_by_name")
  /\ UNCHANGED <<nobjs, mapped, inst, buf_, name_, size_, spc, fd, shm_name, shm_size,
                 ptr, shmAborted, nopens, argName, created, munmaps>>
  /\ UNCHANGED <<poolVars, opVars, fnVars>>
  /\ UNCHANGED abandoned
  /\ UNCHANGED <<unmaps, creators>>

\* Maybe<void> SharedMemory::Unlink(): return UnlinkByName(name_);
Unlink(c) ==
  /\ ~shmAborted
  /\ spc[c] = "idle"
  /\ inst[c] = "live"
  /\ UnlinkByNameBody(c, name_[c], "unlink")
  /\ UNCHANGED <<nobjs, mapped, inst, buf_, name_, size_, spc, fd, shm_name, shm_size,
                 ptr, shmAborted, nopens, argName, created, munmaps>>
  /\ UNCHANGED <<poolVars, opVars, fnVars>>
  /\ UNCHANGED abandoned
  /\ UNCHANGED <<unmaps, creators>>

\* SharedMemory::~SharedMemory(): if (buf_ != nullptr) { CHECK_JUST(Close()); }
Destructor(c) ==
  /\ ~shmAborted
  /\ spc[c] = "idle"
  /\ inst[c] = "live"
  /\ IF DtorGuard(c)
       THEN /\ munmaps' = [munmaps EXCEPT ![c] = munmaps[c] + 1]
            /\ \E sysok \in BOOLEAN :
                 IF PCheckPasses(Munmap(c, sysok).ret)
                   THEN /\ mapped' = [mapped EXCEPT ![c] = IF buf_[c] # NoObj THEN NoObj
                                                              ELSE mapped[c]]
                        /\ unmaps' = [unmaps EXCEPT ![c] = IF buf_[c] # NoObj
                                                           THEN unmaps[c] + 1 ELSE unmaps[c]]
                        /\ buf_' = [buf_ EXCEPT ![c] = NoObj]
                        /\ inst' = [inst EXCEPT ![c] = "destroyed"]
                        /\ name_' = [name_ EXCEPT ![c] = NoName]
                        /\ size_' = [size_ EXCEPT ![c] = 0]
                        /\ UNCHANGED shmAborted
                   ELSE /\ shmAborted' = TRUE
                        /\ UNCHANGED <<mapped, unmaps, buf_, inst, name_, size_>>
       ELSE /\ inst' = [inst EXCEPT ![c] = "destroyed"]
            /\ name_' = [name_ EXCEPT ![c] = NoName]
            /\ size_' = [size_ EXCEPT ![c] = 0]
            /\ UNCHANGED <<munmaps, unmaps, mapped, buf_, shmAborted>>
  /\ UNCHANGED <<shm_ns, shm_obj, nobjs, spc, fd, shm_name, shm_size,
                 ptr, result, nopens, argName, created>>
  /\ UNCHANGED <<poolVars, opVars, fnVars>>
  /\ UNCHANGED abandoned
  /\ UNCHANGED creators
  /\ UNCHANGED unlinked

ShmNext ==
  \E c \in Callers :
    \/ CallOpenCreate(c)
    \/ OpenCreateShmOpen(c)
    \/ OpenCreateFallocate(c)
    \/ OpenCreateMmap(c)
    \/ OpenCreateFinish(c)
    \/ CallOpenAttach(c)
    \/ OpenAttachShmOpen(c)
    \/ OpenAttachFstat(c)
    \/ OpenAttachMmap(c)
    \/ OpenAttachFinish(c)
    \/ WriteByte(c)
    \/ Close(c)
    \/ UnlinkByName(c)
    \/ Unlink(c)
    \/ Destructor(c)

(***************************************************************************)
(* IBVerbsMessagePool                                                      *)
(***************************************************************************)
NullAddr == 0 - 1
NullMr == [addr |-> NullAddr, length |-> 0]
NullMsg == [id |-> 0, mr |-> NullMr, addr |-> NullAddr, size |-> 0]

\* register_memory_size = message_size * num_msg_per_bluk_allocation_
RegisterMemorySize == SizeofActorMsg * num_msg_per_bluk_allocation_

\* addresses malloc may hand out: a block that overlaps no live block
Range(a, n) == a .. (a + n - 1)
HeapBases == {k * RegisterMemorySize : k \in 0 .. (MaxBatches - 1)}
MallocChoices(n) ==
  {a \in HeapBases : \A blk \in heap : Range(a, n) \cap Range(blk.addr, blk.length) = {}}

\* char* split_addr = addr + message_size * i
SplitAddrStride1(a, k) == a + k
SplitAddr(a, k) == a + SizeofActorMsg * k

\* new ActorMsgMR(mr, split_addr, message_size)
ActorMsgMR(id, m, a, n) == [id |-> id, mr |-> m, addr |-> a, size |-> n]

\* std::unique_lock<std::mutex> can be taken by t
NoLock(t) == TRUE
CanLock(t) == message_buf_mutex_ = NoThread

\* the branch of GetMessage: message_buf_.empty()
EmptyAtMostOne(buf) == Len(buf) <= 1
IsEmpty(buf) == buf = <<>>

\* message_buf_.back() / message_buf_.pop_back()
Back(buf) == buf[Len(buf)]
KeepBack(buf) == buf
PopBack(buf) == SubSeq(buf, 1, Len(buf) - 1)

\* message_buf_.push_back(msg_mr)
PushBackTwice(buf, m) == Append(Append(buf, m), m)
PushBack(buf, m) == Append(buf, m)

\* i < num_msg_per_bluk_allocation_ of the loop of BulkAllocMessage
InBatchFirstOnly(i) == i < 1
InBatch(i) == i < num_msg_per_bluk_allocation_

\* the unique_lock guard of t goes out of scope
KeepLocked(t) == message_buf_mutex_
Unlock(t) == IF message_buf_mutex_ = t THEN NoThread ELSE message_buf_mutex_

Collections == <<message_buf_, ibv_mr_buf_, memory_buf_>>
Elems(q) == {q[k] : k \in 1..Len(q)}
NoDup(q) == \A j, k \in 1..Len(q) : q[j] = q[k] => j = k
IsPrefix(p, q) == Len(p) <= Len(q) /\ SubSeq(q, 1, Len(p)) = p

InGet(t) == pc[t] \in {"get_lock", "get_test", "alloc_malloc", "alloc_reg", "alloc_push_mr",
                       "alloc_push_mem", "alloc_loop", "get_pop", "get_ret"}
\* program points between acquiring and releasing message_buf_mutex_
InCS(t) == pc[t] \in {"get_test", "alloc_malloc", "alloc_reg", "alloc_push_mr",
                      "alloc_push_mem", "alloc_loop", "get_pop", "get_ret",
                      "put_push", "put_ret"}
\* GetMessage calls that may still decide to allocate
Undecided == {t \in Threads : pc[t] \in {"get_lock", "get_test"}}

Running == aborted = "no" /\ poolState = "alive"

\* buffers a caller holds or is handing over
InFlight == {msg_mr[t] : t \in {u \in Threads : pc[u] \in {"get_ret", "put_lock", "put_push"}}}
\* buffers GetMessageFromBuf popped that no PutMessage has pushed back
Out == leased \cup InFlight
Max(a, b) == IF a >= b THEN a ELSE b
\* what back() of an empty std::vector may yield: a pointer no bulk allocation made
WildMsg == [id |-> 0 - 1, mr |-> NullMr, addr |-> NullAddr, size |-> 0]

PoolFields(b) ==
  /\ num_msg_per_bluk_allocation_ = b
  /\ message_buf_ = <<>>
  /\ ibv_mr_buf_ = <<>>
  /\ memory_buf_ = <<>>
  /\ message_buf_mutex_ = NoThread
  /\ pc = [t \in Threads |-> "idle"]
  /\ addr = [t \in Threads |-> NullAddr]
  /\ mr = [t \in Threads |-> NullMr]
  /\ idx = [t \in Threads |-> 0]
  /\ msg_mr = [t \in Threads |-> NullMsg]
  /\ leased = {}
  /\ heap = {}
  /\ registered = {}
  /\ deregLog = <<>>
  /\ freeLog = <<>>
  /\ poolState = "alive"
  /\ dtorPc = "none"
  /\ dtorIdx = 0
  /\ aborted = "no"
  /\ nallocs = 0
  /\ ngets = 0
  /\ nputs = 0
  /\ nextMsgId = 1
  /\ emptyAtLock = [t \in Threads |-> FALSE]
  /\ didAlloc = [t \in Threads |-> FALSE]
  /\ snap = <<<<>>, <<>>, <<>>>>
  /\ peak = 0

\* IBVerbsMessagePool(pd, num_msg_per_bluk_allocation)
\* no pool in use
PoolParked == PoolFields(1)
\* a pool constructed with some batch size; no operand and no shared memory yet
PoolInit == (\E b \in 1..MaxB : PoolFields(b)) /\ OperandParked /\ ShmParked /\ FnParked

\* ---- a caller enters GetMessage()
CallGetMessage(t) ==
  /\ Running
  /\ pc[t] = "idle"
  /\ ngets < MaxGets
  /\ nallocs + Cardinality(Undecided) < MaxBatches
  /\ pc' = [pc EXCEPT ![t] = "get_lock"]
  /\ ngets' = ngets + 1
  /\ UNCHANGED <<num_msg_per_bluk_allocation_, message_buf_, ibv_mr_buf_, memory_buf_,
                 message_buf_mutex_, addr, mr, idx, msg_mr, leased, heap, registered,
                 deregLog, freeLog, poolState, dtorPc, dtorIdx, aborted,
                 nallocs, nputs, nextMsgId, emptyAtLock, didAlloc, snap>>
  /\ UNCHANGED peak
  /\ UNCHANGED <<opVars, shmVars, fnVars>>

\* std::unique_lock<std::mutex> msg_buf_lck(message_buf_mutex_);   (GetMessage)
GetLock(t) ==
  /\ Running
  /\ pc[t] = "get_lock"
  /\ CanLock(t)
  /\ message_buf_mutex_' = t
  /\ pc' = [pc EXCEPT ![t] = "get_test"]
  /\ emptyAtLock' = [emptyAtLock EXCEPT ![t] = (message_buf_ = <<>>)]
  /\ UNCHANGED <<num_msg_per_bluk_allocation_, message_buf_, ibv_mr_buf_, memory_buf_,
                 addr, mr, idx, msg_mr, leased, heap, registered,
                 deregLog, freeLog, poolState, dtorPc, dtorIdx, aborted,
                 nallocs, ngets, nputs, nextMsgId, didAlloc, snap>>
  /\ UNCHANGED peak
  /\ UNCHANGED <<opVars, shmVars, fnVars>>

\* if (!message_buf_.empty()) { GetMessageFromBuf } else { BulkAllocMessage; GetMessageFromBuf }
GetTest(t) ==
  /\ Running
  /\ pc[t] = "get_test"
  /\ IF IsEmpty(message_buf_)
       THEN /\ pc' = [pc EXCEPT ![t] = "alloc_malloc"]
            /\ nallocs' = nallocs + 1
            /\ didAlloc' = [didAlloc EXCEPT ![t] = TRUE]
            /\ snap' = Collections
       ELSE /\ pc' = [pc EXCEPT ![t] = "get_pop"]
            /\ UNCHANGED <<nallocs, didAlloc, snap>>
  /\ UNCHANGED <<num_msg_per_bluk_allocation_, message_buf_, ibv_mr_buf_, memory_buf_,
                 message_buf_mutex_, addr, mr, idx, msg_mr, leased, heap, registered,
                 deregLog, freeLog, poolState, dtorPc, dtorIdx, aborted,
                 ngets, nputs, nextMsgId, emptyAtLock>>
  /\ UNCHANGED peak
  /\ UNCHANGED <<opVars, shmVars, fnVars>>

\* char* addr = (char*)malloc(register_memory_size);
BulkAllocMalloc(t) ==
  /\ Running
  /\ pc[t] = "alloc_malloc"
  /\ \E a \in MallocChoices(RegisterMemorySize) :
       /\ addr' = [addr EXCEPT ![t] = a]
       /\ heap' = heap \cup {[addr |-> a, length |-> RegisterMemorySize]}
  /\ pc' = [pc EXCEPT ![t] = "alloc_reg"]
  /\ UNCHANGED <<num_msg_per_bluk_allocation_, message_buf_, ibv_mr_buf_, memory_buf_,
                 message_buf_mutex_, mr, idx, msg_mr, leased, registered,
                 deregLog, freeLog, poolState, dtorPc, dtorIdx, aborted,
                 nallocs, ngets, nputs, nextMsgId, emptyAtLock, didAlloc, snap>>
  /\ UNCHANGED peak
  /\ UNCHANGED <<opVars, shmVars, fnVars>>

\* what a failed CHECK(mr) leaves of the collections
RegFailPushesFirst(t) ==
  /\ ibv_mr_buf_' = Append(ibv_mr_buf_, NullMr)
  /\ UNCHANGED <<message_buf_, memory_buf_>>
RegFailEffect(t) == UNCHANGED <<message_buf_, ibv_mr_buf_, memory_buf_>>

\* ibv_mr* mr = ibv_reg_mr_wrap(pd_, addr, register_memory_size, ...); CHECK(mr);
BulkAllocReg(t) ==
  /\ Running
  /\ pc[t] = "alloc_reg"
  /\ \E ok \in BOOLEAN :
       IF ok
         THEN /\ mr' = [mr EXCEPT ![t] = [addr |-> addr[t], length |-> RegisterMemorySize]]
              /\ registered' = registered \cup {[addr |-> addr[t], length |-> RegisterMemorySize]}
              /\ pc' = [pc EXCEPT ![t] = "alloc_push_mr"]
              /\ UNCHANGED <<aborted, message_buf_, ibv_mr_buf_, memory_buf_>>
         ELSE /\ aborted' = "reg_mr"
              /\ RegFailEffect(t)
              /\ UNCHANGED <<mr, registered, pc>>
  /\ UNCHANGED <<num_msg_per_bluk_allocation_,
                 message_buf_mutex_, addr, idx, msg_mr, leased, heap,
                 deregLog, freeLog, poolState, dtorPc, dtorIdx,
                 nallocs, ngets, nputs, nextMsgId, emptyAtLock, didAlloc, snap>>
  /\ UNCHANGED peak
  /\ UNCHANGED <<opVars, shmVars, fnVars>>

\* ibv_mr_buf_.push_back(mr);
BulkAllocPushMr(t) ==
  /\ Running
  /\ pc[t] = "alloc_push_mr"
  /\ ibv_mr_buf_' = Append(ibv_mr_buf_, mr[t])
  /\ pc' = [pc EXCEPT ![t] = "alloc_push_mem"]
  /\ UNCHANGED <<num_msg_per_bluk_allocation_, message_buf_, memory_buf_,
                 message_buf_mutex_, addr, mr, idx, msg_mr, leased, heap, registered,
                 deregLog, freeLog, poolState, dtorPc, dtorIdx, aborted,
                 nallocs, ngets, nputs, nextMsgId, emptyAtLock, didAlloc, snap>>
  /\ UNCHANGED peak
  /\ UNCHANGED <<opVars, shmVars, fnVars>>

\* memory_buf_.push_back(addr);
BulkAllocPushMem(t) ==
  /\ Running
  /\ pc[t] = "alloc_push_mem"
  /\ memory_buf_' = Append(memory_buf_, addr[t])
  /\ idx' = [idx EXCEPT ![t] = 0]
  /\ pc' = [pc EXCEPT ![t] = "alloc_loop"]
  /\ UNCHANGED <<num_msg_per_bluk_allocation_, message_buf_, ibv_mr_buf_,
                 message_buf_mutex_, addr, mr, msg_mr, leased, heap, registered,
                 deregLog, freeLog, poolState, dtorPc, dtorIdx, aborted,
                 nallocs, ngets, nputs, nextMsgId, emptyAtLock, didAlloc, snap>>
  /\ UNCHANGED peak
  /\ UNCHANGED <<opVars, shmVars, fnVars>>

\* for (size_t i = 0; i < num_msg_per_bluk_allocation_; i++) { ... push_back(msg_mr); }
BulkAllocLoop(t) ==
  /\ Running
  /\ pc[t] = "alloc_loop"
  /\ IF InBatch(idx[t])
       THEN /\ message_buf_' = PushBack(message_buf_,
                   ActorMsgMR(nextMsgId, mr[t], SplitAddr(addr[t], idx[t]), SizeofActorMsg))
            /\ nextMsgId' = nextMsgId + 1
            /\ idx' = [idx EXCEPT ![t] = idx[t] + 1]
            /\ UNCHANGED pc
       ELSE /\ pc' = [pc EXCEPT ![t] = "get_pop"]
            /\ UNCHANGED <<message_buf_, nextMsgId, idx>>
  /\ UNCHANGED <<num_msg_per_bluk_allocation_, ibv_mr_buf_, memory_buf_,
                 message_buf_mutex_, addr, mr, msg_mr, leased, heap, registered,
                 deregLog, freeLog, poolState, dtorPc, dtorIdx, aborted,
                 nallocs, ngets, nputs, emptyAtLock, didAlloc, snap>>
  /\ UNCHANGED peak
  /\ UNCHANGED <<opVars, shmVars, fnVars>>

\* ActorMsgMR* msg_mr = message_buf_.back(); message_buf_.pop_back(); return msg_mr;
\* back() and pop_back() of an empty vector are undefined: the process dies
\* ("segv"), or a wild pointer comes back from a free-list that is corrupt from
\* then on ("wild_pop"), after which nothing about the pool is defined
GetMessageFromBuf(t) ==
  /\ Running
  /\ pc[t] = "get_pop"
  /\ IF message_buf_ # <<>>
       THEN /\ msg_mr' = [msg_mr EXCEPT ![t] = Back(message_buf_)]
            /\ message_buf_' = PopBack(message_buf_)
            /\ pc' = [pc EXCEPT ![t] = "get_ret"]
            /\ peak' = Max(peak, Cardinality(Out \cup {Back(message_buf_)}))
            /\ UNCHANGED aborted
       ELSE \/ /\ aborted' = "segv"
               /\ UNCHANGED <<msg_mr, message_buf_, pc, peak>>
            \/ /\ aborted' = "wild_pop"
               /\ msg_mr' = [msg_mr EXCEPT ![t] = WildMsg]
               /\ pc' = [pc EXCEPT ![t] = "get_ret"]
               /\ UNCHANGED <<message_buf_, peak>>
  /\ UNCHANGED <<num_msg_per_bluk_allocation_, ibv_mr_buf_, memory_buf_,
                 message_buf_mutex_, addr, mr, idx, leased, heap, registered,
                 deregLog, freeLog, poolState, dtorPc, dtorIdx,
                 nallocs, ngets, nputs, nextMsgId, emptyAtLock, didAlloc, snap>>
  /\ UNCHANGED <<opVars, shmVars, fnVars>>

\* GetMessage returns: the lock guard is released and the caller holds the buffer
GetReturn(t) ==
  /\ Running
  /\ pc[t] = "get_ret"
  /\ message_buf_mutex_' = Unlock(t)
  /\ leased' = leased \cup {msg_mr[t]}
  /\ pc' = [pc EXCEPT ![t] = "idle"]
  \* the locals of the finished call are gone
  /\ msg_mr' = [msg_mr EXCEPT ![t] = NullMsg]
  /\ addr' = [addr EXCEPT ![t] = NullAddr]
  /\ mr' = [mr EXCEPT ![t] = NullMr]
  /\ idx' = [idx EXCEPT ![t] = 0]
  /\ emptyAtLock' = [emptyAtLock EXCEPT ![t] = FALSE]
  /\ didAlloc' = [didAlloc EXCEPT ![t] = FALSE]
  /\ snap' = <<<<>>, <<>>, <<>>>>
  /\ UNCHANGED <<num_msg_per_bluk_allocation_, message_buf_, ibv_mr_buf_, memory_buf_,
                 heap, registered,
                 deregLog, freeLog, poolState, dtorPc, dtorIdx, aborted,
                 nallocs, ngets, nputs, nextMsgId>>
  /\ UNCHANGED peak
  /\ UNCHANGED <<opVars, shmVars, fnVars>>

\* a caller passes a buffer it leased to PutMessage(msg_mr)
CallPutMessage(t) ==
  /\ Running
  /\ pc[t] = "idle"
  /\ \E b \in leased :
       /\ msg_mr' = [msg_mr EXCEPT ![t] = b]
       /\ leased' = leased \ {b}
  /\ pc' = [pc EXCEPT ![t] = "put_lock"]
  /\ nputs' = nputs + 1
  /\ UNCHANGED <<num_msg_per_bluk_allocation_, message_buf_, ibv_mr_buf_, memory_buf_,
                 message_buf_mutex_, addr, mr, idx, heap, registered,
                 deregLog, freeLog, poolState, dtorPc, dtorIdx, aborted,
                 nallocs, ngets, nextMsgId, emptyAtLock, didAlloc, snap>>
  /\ UNCHANGED peak
  /\ UNCHANGED <<opVars, shmVars, fnVars>>

\* std::unique_lock<std::mutex> msg_buf_lck(message_buf_mutex_);   (PutMessage)
PutLock(t) ==
  /\ Running
  /\ pc[t] = "put_lock"
  /\ CanLock(t)
  /\ message_buf_mutex_' = t
  /\ pc' = [pc EXCEPT ![t] = "put_push"]
  /\ UNCHANGED <<num_msg_per_bluk_allocation_, message_buf_, ibv_mr_buf_, memory_buf_,
                 addr, mr, idx, msg_mr, leased, heap, registered,
                 deregLog, freeLog, poolState, dtorPc, dtorIdx, aborted,
                 nallocs, ngets, nputs, nextMsgId, emptyAtLock, didAlloc, snap>>
  /\ UNCHANGED peak
  /\ UNCHANGED <<opVars, shmVars, fnVars>>

\* message_buf_.push_back(msg_mr);
PutPush(t) ==
  /\ Running
  /\ pc[t] = "put_push"
  /\ message_buf_' = PushBack(message_buf_, msg_mr[t])
  /\ pc' = [pc EXCEPT ![t] = "put_ret"]
  /\ UNCHANGED <<num_msg_per_bluk_allocation_, ibv_mr_buf_, memory_buf_,
                 message_buf_mutex_, addr, mr, idx, msg_mr, leased, heap, registered,
                 deregLog, freeLog, poolState, dtorPc, dtorIdx, aborted,
                 nallocs, ngets, nputs, nextMsgId, emptyAtLock, didAlloc, snap>>
  /\ UNCHANGED peak
  /\ UNCHANGED <<opVars, shmVars, fnVars>>

\* PutMessage returns: the lock guard is released
PutReturn(t) ==
  /\ Running
  /\ pc[t] = "put_ret"
  /\ message_buf_mutex_' = Unlock(t)
  /\ pc' = [pc EXCEPT ![t] = "idle"]
  /\ msg_mr' = [msg_mr EXCEPT ![t] = NullMsg]
  /\ UNCHANGED <<num_msg_per_bluk_allocation_, message_buf_, ibv_mr_buf_, memory_buf_,
                 addr, mr, idx, leased, heap, registered,
                 deregLog, freeLog, poolState, dtorPc, dtorIdx, aborted,
                 nallocs, ngets, nputs, nextMsgId, emptyAtLock, didAlloc, snap>>
  /\ UNCHANGED peak
  /\ UNCHANGED <<opVars, shmVars, fnVars>>

\* the pool may be destroyed when no call is in progress
DtorStart ==
  /\ Running
  /\ \A t \in Threads : pc[t] = "idle"
  /\ poolState' = "destroying"
  /\ dtorPc' = "dereg"
  /\ dtorIdx' = 0
  /\ UNCHANGED <<num_msg_per_bluk_allocation_, message_buf_, ibv_mr_buf_, memory_buf_,
                 message_buf_mutex_, pc, addr, mr, idx, msg_mr, leased, heap, registered,
                 deregLog, freeLog, aborted,
                 nallocs, ngets, nputs, nextMsgId, emptyAtLock, didAlloc, snap>>
  /\ UNCHANGED peak
  /\ UNCHANGED <<opVars, shmVars, fnVars>>

\* loop bound of the destructor's loops: i < size
DtorBoundShort(n) == n - 1
DtorBound(n) == n

\* for (i < ibv_mr_buf_.size()) { CHECK_EQ(ibv_dereg_mr(ibv_mr_buf_[i]), 0); }
DtorDereg ==
  /\ aborted = "no"
  /\ poolState = "destroying"
  /\ dtorPc = "dereg"
  /\ IF dtorIdx < DtorBound(Len(ibv_mr_buf_))
       THEN \E ok \in BOOLEAN :
              IF ok
                THEN /\ registered' = registered \ {ibv_mr_buf_[dtorIdx + 1]}
                     /\ deregLog' = Append(deregLog, ibv_mr_buf_[dtorIdx + 1])
                     /\ dtorIdx' = dtorIdx + 1
                     /\ UNCHANGED <<aborted, dtorPc>>
                ELSE /\ aborted' = "dereg_mr"
                     /\ UNCHANGED <<registered, deregLog, dtorIdx, dtorPc>>
       ELSE /\ dtorPc' = "free"
            /\ dtorIdx' = 0
            /\ UNCHANGED <<registered, deregLog, aborted>>
  /\ UNCHANGED <<num_msg_per_bluk_allocation_, message_buf_, ibv_mr_buf_, memory_buf_,
                 message_buf_mutex_, pc, addr, mr, idx, msg_mr, leased, heap,
                 freeLog, poolState,
                 nallocs, ngets, nputs, nextMsgId, emptyAtLock, didAlloc, snap>>
  /\ UNCHANGED peak
  /\ UNCHANGED <<opVars, shmVars, fnVars>>

\* for (i < memory_buf_.size()) { free(memory_buf_[i]); }
DtorFree ==
  /\ aborted = "no"
  /\ poolState = "destroying"
  /\ dtorPc = "free"
  /\ IF dtorIdx < DtorBound(Len(memory_buf_))
       THEN /\ heap' = {blk \in heap : blk.addr # memory_buf_[dtorIdx + 1]}
            /\ freeLog' = Append(freeLog, memory_buf_[dtorIdx + 1])
            /\ dtorIdx' = dtorIdx + 1
            /\ UNCHANGED dtorPc
       ELSE /\ dtorPc' = "clear"
            /\ UNCHANGED <<heap, freeLog, dtorIdx>>
  /\ UNCHANGED <<num_msg_per_bluk_allocation_, message_buf_, ibv_mr_buf_, memory_buf_,
                 message_buf_mutex_, pc, addr, mr, idx, msg_mr, leased, registered,
                 deregLog, poolState, aborted,
                 nallocs, ngets, nputs, nextMsgId, emptyAtLock, didAlloc, snap>>
  /\ UNCHANGED peak
  /\ UNCHANGED <<opVars, shmVars, fnVars>>

\* ibv_mr_buf_.clear(); memory_buf_.clear();
DtorClear ==
  /\ aborted = "no"
  /\ poolState = "destroying"
  /\ dtorPc = "clear"
  /\ ibv_mr_buf_' = <<>>
  /\ memory_buf_' = <<>>
  /\ poolState' = "destroyed"
  /\ dtorPc' = "done"
  /\ UNCHANGED <<num_msg_per_bluk_allocation_, message_buf_,
                 message_buf_mutex_, pc, addr, mr, idx, msg_mr, leased, heap, registered,
                 deregLog, freeLog, dtorIdx, aborted,
                 nallocs, ngets, nputs, nextMsgId, emptyAtLock, didAlloc, snap>>
  /\ UNCHANGED peak
  /\ UNCHANGED <<opVars, shmVars, fnVars>>

ThreadStep(t) ==
  \/ GetLock(t)
  \/ GetTest(t)
  \/ BulkAllocMalloc(t)
  \/ BulkAllocReg(t)
  \/ BulkAllocPushMr(t)
  \/ BulkAllocPushMem(t)
  \/ BulkAllocLoop(t)
  \/ GetMessageFromBuf(t)
  \/ GetReturn(t)
  \/ PutLock(t)
  \/ PutPush(t)
  \/ PutReturn(t)

PoolNext ==
  \/ \E t \in Threads : CallGetMessage(t)
  \/ \E t \in Threads : CallPutMessage(t)
  \/ \E t \in Threads : ThreadStep(t)
  \/ DtorStart
  \/ DtorDereg
  \/ DtorFree
  \/ DtorClear

SpecPool == PoolInit /\ [][PoolNext]_vars

\* a pool constructed with any batch count a uint32_t argument can carry, 0 included
PoolInitAny == (\E b \in 0..MaxB : PoolFields(b)) /\ OperandParked /\ ShmParked /\ FnParked
SpecPoolAny == PoolInitAny /\ [][PoolNext]_vars

(***************************************************************************)
(* Fairness: a thread inside a call keeps running, and a thread blocked on *)
(* the mutex gets it once the mutex stays free.  Starting a call or        *)
(* destroying the pool is the caller's choice and is not forced.           *)
(***************************************************************************)
PoolFairness ==
  \A t \in Threads :
    WF_vars(ThreadStep(t))

LiveSpecPool == PoolInit /\ [][PoolNext]_vars /\ PoolFairness

(***************************************************************************)
(* Properties of IBVerbsMessagePool                                        *)
(***************************************************************************)
Circulating == Elems(message_buf_) \cup leased \cup InFlight

\* C1 (state part): the buffer a GetMessage is about to return is not leased,
\* is not the buffer of another returning GetMessage, and no leased buffer is free.
C1_NoDoubleLease ==
  /\ \A t \in Threads : pc[t] = "get_ret" =>
       /\ msg_mr[t] \notin leased
       /\ msg_mr[t] # NullMsg
       /\ \A u \in Threads \ {t} : pc[u] \in {"get_ret", "put_lock", "put_push"}
                                     => msg_mr[u] # msg_mr[t]
  /\ leased \cap Elems(message_buf_) = {}
  /\ NoDup(message_buf_)

\* C1 (step part): a buffer that was handed out before enters the free-list
\* only by the push_back of a PutMessage call on that buffer.
C1_ReenterOnlyByPut ==
  \A b \in Elems(message_buf_') \ Elems(message_buf_) :
     \/ b.id >= nextMsgId
     \/ \E t \in Threads : pc[t] = "put_push" /\ pc'[t] = "put_ret" /\ msg_mr[t] = b

\* C1: no double lease under any interleaving of GetMessage and PutMessage,
\* and a leased buffer returns to the free-list only through PutMessage on it.
C1_Theorem == [](C1_NoDoubleLease) /\ [][C1_ReenterOnlyByPut]_vars

C1_Witness ==
  /\ nputs >= 2
  /\ leased # {}
  /\ \E t, u \in Threads : pc[t] = "get_ret" /\ ~didAlloc[t] /\ pc[u] = "put_lock"

\* C2: GetMessage allocates a batch iff the free-list was empty when it took
\* the lock; a batch adds exactly B buffers, one taken by the caller and B-1
\* left free; with B = 4 and no PutMessage, calls 1..4 make one batch in
\* total and call 5 one more.
C2_Theorem ==
  /\ \A t \in Threads :
       pc[t] \in {"alloc_malloc", "alloc_reg", "alloc_push_mr", "alloc_push_mem",
                  "alloc_loop", "get_pop", "get_ret"}
         => (didAlloc[t] <=> emptyAtLock[t])
  /\ \A t \in Threads : (pc[t] = "get_pop" /\ didAlloc[t]) =>
       /\ Len(message_buf_) = num_msg_per_bluk_allocation_
       /\ \A b \in Elems(message_buf_) : b.mr = mr[t]
       /\ Len(ibv_mr_buf_) = Len(snap[2]) + 1
  /\ \A t \in Threads : (pc[t] = "get_ret" /\ didAlloc[t]) =>
       /\ Len(message_buf_) = num_msg_per_bluk_allocation_ - 1
       /\ msg_mr[t].mr = mr[t]
  /\ (/\ num_msg_per_bluk_allocation_ = 4
      /\ nputs = 0
      /\ aborted = "no"
      /\ \A t \in Threads : pc[t] = "idle")
       => /\ ngets \in 1..4 => nallocs = 1
          /\ ngets = 5 => nallocs = 2

C2_Witness ==
  /\ num_msg_per_bluk_allocation_ = 4
  /\ nputs = 0
  /\ ngets = 5
  /\ nallocs = 2
  /\ aborted = "no"
  /\ poolState = "alive"
  /\ \A t \in Threads : pc[t] = "idle"

\* C3 (state part): at most one thread is between lock and unlock, and it owns the mutex.
C3_MutualExclusion ==
  /\ Cardinality({t \in Threads : InCS(t)}) <= 1
  /\ \A t \in Threads : InCS(t) => message_buf_mutex_ = t

\* C3 (step part): while a thread is inside its critical section, a step that
\* is not its own leaves the free-list and both backing collections unchanged.
C3_NoInterference ==
  \A t \in Threads :
    (InCS(t) /\ pc'[t] = pc[t] /\ idx'[t] = idx[t] /\ poolState = "alive")
      => UNCHANGED <<message_buf_, ibv_mr_buf_, memory_buf_>>

\* C3: GetMessage and PutMessage exclude each other on the free-list; test,
\* bulk allocation and pop form one critical section.
C3_Theorem == [](C3_MutualExclusion) /\ [][C3_NoInterference]_vars

C3_Witness ==
  \E t, u \in Threads :
    /\ pc[t] = "alloc_loop"
    /\ idx[t] = 1
    /\ pc[u] = "put_lock"

\* C4: with a fair lock and successful registration every GetMessage call
\* eventually holds a buffer, also when nobody calls PutMessage; the pool
\* grows by a batch instead of blocking.
C4_Theorem ==
  \A t \in Threads :
    (pc[t] = "get_lock") ~> ((pc[t] = "get_ret" /\ msg_mr[t] # NullMsg) \/ aborted # "no")

C4_Witness ==
  /\ nputs = 0
  /\ nallocs = MaxBatches
  /\ aborted = "no"
  /\ \E t \in Threads : pc[t] = "get_ret" /\ didAlloc[t] /\ msg_mr[t] # NullMsg

BufRange(b) == Range(b.addr, b.size)

\* C5: in a live pool every buffer refers to exactly one recorded, registered
\* region, lies inside that region's raw allocation, and distinct buffers do
\* not overlap.
C5_Theorem ==
  poolState = "alive" =>
    /\ \A b \in Circulating :
         /\ b.mr \in registered
         /\ {m \in Elems(ibv_mr_buf_) : BufRange(b) \subseteq Range(m.addr, m.length)} = {b.mr}
         /\ b.mr.addr \in Elems(memory_buf_)
         /\ \E blk \in heap : /\ blk.addr = b.mr.addr
                              /\ BufRange(b) \subseteq Range(blk.addr, blk.length)
    /\ \A b1, b2 \in Circulating : b1.id # b2.id => BufRange(b1) \cap BufRange(b2) = {}

C5_Witness ==
  /\ poolState = "alive"
  /\ Len(ibv_mr_buf_) = 2
  /\ message_buf_ # <<>>
  /\ \E b1, b2 \in leased : b1.mr # b2.mr

\* C6 (state part): before destruction nothing is deregistered or freed; when
\* the destructor reaches clear(), it has deregistered exactly the recorded
\* regions and freed exactly the recorded raw buffers, each once.
C6_Released ==
  /\ poolState = "alive" =>
       /\ deregLog = <<>> /\ freeLog = <<>>
       /\ Elems(ibv_mr_buf_) \subseteq registered
       /\ Elems(memory_buf_) \subseteq {blk.addr : blk \in heap}
  /\ dtorPc = "clear" =>
       /\ deregLog = ibv_mr_buf_ /\ NoDup(deregLog)
       /\ freeLog = memory_buf_ /\ NoDup(freeLog)
  /\ poolState = "destroyed" =>
       /\ Len(deregLog) = nallocs /\ NoDup(deregLog)
       /\ Len(freeLog) = nallocs /\ NoDup(freeLog)
       /\ registered = {} /\ heap = {}

\* C6 (step part): while the pool lives the two collections only grow, and
\* only by the push_back steps of a bulk allocation.
C6_OnlyGrow ==
  (poolState = "alive" /\ poolState' = "alive") =>
    /\ IsPrefix(ibv_mr_buf_, ibv_mr_buf_')
    /\ IsPrefix(memory_buf_, memory_buf_')
    /\ ibv_mr_buf_' # ibv_mr_buf_ => \E t \in Threads : pc[t] = "alloc_push_mr"
    /\ memory_buf_' # memory_buf_ => \E t \in Threads : pc[t] = "alloc_push_mem"

\* C6: region and raw-buffer collections only grow, inside bulk allocations,
\* until destruction; the destructor releases every entry exactly once.
C6_Theorem == [](C6_Released) /\ [][C6_OnlyGrow]_vars

C6_Witness ==
  /\ poolState = "destroyed"
  /\ nallocs = 2
  /\ leased # {}

\* C7 (state part): after a failed registration the three collections are as
\* they were on entry to BulkAllocMessage and no buffer of the failed batch exists.
C7_FailedRegistration ==
  aborted = "reg_mr" =>
    /\ Collections = snap
    /\ \A t \in Threads : pc[t] = "alloc_reg" =>
         /\ msg_mr[t] = NullMsg
         /\ \A b \in Circulating : b.mr.addr # addr[t]

\* C7: a failed ibv_reg_mr terminates the process (no step follows a failed
\* CHECK) before the collections are touched, and no buffer of that batch is returned.
C7_Theorem == [](C7_FailedRegistration) /\ [][aborted = "no"]_vars

C7_Witness ==
  /\ aborted = "reg_mr"
  /\ Len(ibv_mr_buf_) = 1
  /\ leased # {}

(***************************************************************************)
(* Properties of AccessBlobArgCbPhyInstrOperand                            *)
(***************************************************************************)
\* an operand constructed with some modifier; no pool and no shared memory
OperandInit == OperandFields /\ PoolParked /\ ShmParked /\ FnParked
SpecOperand == OperandInit /\ [][OperandNext]_vars

Count(q, x) == Cardinality({k \in 1..Len(q) : q[k] = x})
VisitsBy(e) == Cardinality({k \in 1..Len(visits) : visits[k].by = e})
AllEnumeratorsCalled == {"Const", "Mut", "Mut2"} \subseteq Elems(enumLog)
\* the enumerators that invoked the visitor
Invoking == {visits[k].by : k \in 1..Len(visits)}

\* C8: each enumerator invokes the visitor iff the operand's tag is its own
\* tag, then exactly once per call, with infer = null and compute = the
\* operand's compute dependency object.
C8_Theorem ==
  /\ VisitsBy("Const") = (IF modifier_ = "const" THEN Count(enumLog, "Const") ELSE 0)
  /\ VisitsBy("Mut") = (IF modifier_ = "mut" THEN Count(enumLog, "Mut") ELSE 0)
  /\ VisitsBy("Mut2") = (IF modifier_ = "mut2" THEN Count(enumLog, "Mut2") ELSE 0)
  /\ \A k \in 1..Len(visits) :
       /\ visits[k].infer = NullMirroredObject
       /\ visits[k].compute = MutMirroredObject(compute_local_dep_object_)
       /\ visits[k].compute # NullMirroredObject

C8_Witness ==
  /\ modifier_ = "const"
  /\ AllEnumeratorsCalled
  /\ Len(visits) = 1
  /\ visits[1].by = "Const"

ShmInit == ShmParked /\ PoolParked /\ OperandParked /\ FnParked
SpecShm == ShmInit /\ [][ShmNext]_vars

\* the step at which shm_open of a create-form Open succeeds
C10_OpenCreateCreates(c) == spc[c] = "c_open" /\ spc'[c] = "c_fallocate"
\* the step at which a create-form Open returns its instance
C10_OpenCreateReturns(c) == spc[c] = "c_finish" /\ spc'[c] = "idle"

\* the region of a create-form Open did not exist before the call: no name
\* led to it, and it is bound to the given name or to a generated one
C10_CreatesNew ==
  \A c \in Callers :
    C10_OpenCreateCreates(c) =>
      /\ created'[c] = nobjs + 1
      /\ nobjs' = nobjs + 1
      /\ \A n \in Names : shm_ns[n] # created'[c]
      /\ \A d \in Callers : mapped[d] # created'[c] /\ fd[d] # created'[c]
      /\ shm_obj[created'[c]].size = 0
      /\ shm_ns[shm_name'[c]] = NoObj
      /\ shm_ns'[shm_name'[c]] = created'[c]
      /\ ~Anon(c) => shm_name'[c] = argName[c]

\* the call works on the region it created until it returns
C10_KeepsRegion ==
  \A c \in Callers :
    spc[c] \in {"c_fallocate", "c_mmap", "c_finish"} =>
      /\ created[c] # NoObj
      /\ fd[c] = created[c]
      /\ spc[c] = "c_finish" => ptr[c] = created[c]

\* what a successful create-form Open returns
C10_Returns ==
  \A c \in Callers :
    C10_OpenCreateReturns(c) =>
      /\ result' = Ok(c, "create", 1)
      /\ inst'[c] = "live"
      /\ buf_'[c] = created[c]
      /\ mapped'[c] = buf_'[c]
      /\ name_'[c] = shm_name[c]
      /\ ~Anon(c) => name_'[c] = argName[c]
      /\ size_'[c] = shm_size[c]
      /\ shm_obj'[buf_'[c]].size = shm_size[c]
      /\ shm_obj'[buf_'[c]].bytes = Zeros(shm_size[c])

\* a create-form Open succeeds only by that return
C10_OnlyReturnSucceeds ==
  (result' # result /\ result'.op = "create" /\ result'.ok) => C10_OpenCreateReturns(result'.by)

\* C10: a successful SharedMemory::Open(name?, size) creates a region that
\* did not exist before, under the given name or a generated one, of exactly
\* the requested size, with all bytes zero, mapped in the returned instance,
\* which records that name and that size.
C10_Theorem ==
  /\ [](C10_KeepsRegion)
  /\ [][C10_CreatesNew /\ C10_Returns /\ C10_OnlyReturnSucceeds]_vars

\* a create-form Open under a generated name has returned its instance while
\* another caller is attached to the same region
C10_Witness ==
  \E c, d \in Callers :
    /\ c # d
    /\ result = Ok(c, "create", 1)
    /\ inst[c] = "live" /\ inst[d] = "live"
    /\ buf_[c] # NoObj /\ buf_[d] = buf_[c]
    /\ shm_ns[name_[c]] = buf_[c]
    /\ size_[c] = MaxShmSize
    /\ shm_obj[buf_[c]].bytes = Zeros(size_[c])

\* a handle whose mapped region is still linked under the handle's name
C11_Linked(d) == inst[d] = "live" /\ buf_[d] # NoObj /\ shm_ns[name_[d]] = buf_[d]
\* the steps of the attach form of Open
C11_OpenAttachOpens(c) == spc[c] = "a_open" /\ spc'[c] # "a_open"
C11_OpenAttachStats(c) == spc[c] = "a_fstat" /\ spc'[c] # "a_fstat"
C11_OpenAttachMaps(c) == spc[c] = "a_mmap" /\ spc'[c] # "a_mmap"
C11_OpenAttachReturns(c) == spc[c] = "a_finish" /\ spc'[c] = "idle"
C11_OpenAttachSteps(c) ==
  C11_OpenAttachOpens(c) \/ C11_OpenAttachStats(c) \/ C11_OpenAttachMaps(c) \/ C11_OpenAttachReturns(c)

\* shm_open of the attach form finds the region of a handle linked under the name
C11_FindsRegion ==
  \A c, d \in Callers :
    (C11_OpenAttachOpens(c) /\ C11_Linked(d) /\ name_[d] = shm_name[c]) =>
      /\ spc'[c] = "idle" => result'.errno # "ENOENT"
      /\ spc'[c] = "a_fstat" => fd'[c] = buf_[d]

\* fstat reports the size the first handle has, and mapping that size is not refused
C11_SameSize ==
  \A c \in Callers :
    /\ \A d \in Callers :
         (C11_OpenAttachStats(c) /\ spc'[c] = "a_mmap" /\ inst[d] = "live" /\ buf_[d] = fd[c]) =>
           (shm_size'[c] = size_[d] /\ shm_size'[c] > 0)
    /\ (C11_OpenAttachMaps(c) /\ shm_size[c] > 0) =>
         (spc'[c] = "idle" => result'.errno # "EINVAL")
    /\ (C11_OpenAttachMaps(c) /\ spc'[c] = "a_finish") => ptr'[c] = fd[c]

\* the returned handle maps the region found, with the size and name found
C11_Returns ==
  \A c \in Callers :
    C11_OpenAttachReturns(c) =>
      /\ result' = Ok(c, "attach", 1)
      /\ inst'[c] = "live"
      /\ buf_'[c] = fd[c] /\ mapped'[c] = fd[c]
      /\ size_'[c] = shm_size[c] /\ size_'[c] = shm_obj[fd[c]].size
      /\ name_'[c] = argName[c]
      /\ \A d \in Callers : (inst[d] = "live" /\ buf_[d] = buf_'[c]) => size_[d] = size_'[c]

\* attaching changes neither the content of any region nor the namespace
C11_NoChange ==
  \A c \in Callers : C11_OpenAttachSteps(c) => (shm_obj' = shm_obj /\ shm_ns' = shm_ns)

\* what a handle reads through its mapped pointer
C11_View(c) == shm_obj[buf_[c]].bytes

\* handles of one region read the same bytes and have the same size
C11_Shared ==
  \A c, d \in Callers :
    (inst[c] = "live" /\ inst[d] = "live" /\ buf_[c] # NoObj /\ mapped[d] = mapped[c]
     /\ buf_[d] # NoObj) =>
      (C11_View(c) = C11_View(d) /\ size_[c] = size_[d] /\ Len(C11_View(c)) = size_[c])

\* C11: after Open(name, size) succeeded and while the name is linked, Open(name)
\* from a second handle finds the same region, reports the first handle's
\* size, maps the same pages (a write through one handle is what the other
\* reads) and changes no content; it fails only when a system call fails for
\* lack of resources.
C11_Theorem ==
  /\ [](C11_Shared)
  /\ [][C11_FindsRegion /\ C11_SameSize /\ C11_Returns /\ C11_NoChange]_vars

\* a second handle attached to a region whose first handle had written to it
C11_Witness ==
  \E c, d \in Callers :
    /\ c # d
    /\ result = Ok(c, "attach", 1)
    /\ C11_Linked(d) /\ inst[c] = "live"
    /\ buf_[c] = buf_[d] /\ name_[c] = name_[d] /\ size_[c] = size_[d]
    /\ \E k \in 1..size_[c] : C11_View(c)[k] = 1

\* shm_open of the attach form on an absent name fails with ENOENT and creates nothing
C12_AbsentFails ==
  \A c \in Callers :
    (C11_OpenAttachOpens(c) /\ shm_ns[shm_name[c]] = NoObj) =>
      /\ spc'[c] = "idle"
      /\ result' = Failed(c, "attach", "ENOENT", "ENOENT", 0)
      /\ inst'[c] # "live"

\* no step of the attach form adds a name or an object
C12_NeverCreates ==
  \A c \in Callers :
    C11_OpenAttachSteps(c) => (shm_ns' = shm_ns /\ nobjs' = nobjs /\ creators' = creators)

\* a name that Unlink or UnlinkByName removed is absent until a create-form Open
\* makes it again
C12_UnlinkedAbsent == \A n \in unlinked : shm_ns[n] = NoObj

\* C12: the attach form of Open fails with a not-found error whenever the
\* name is absent, never creates the name, and so fails after Unlink or
\* UnlinkByName removed the name, also while handles still map the region.
C12_Theorem ==
  /\ [](C12_UnlinkedAbsent)
  /\ [][C12_AbsentFails /\ C12_NeverCreates]_vars

\* an attach failed with ENOENT on an unlinked name whose region another
\* handle still has mapped
C12_Witness ==
  \E c, d \in Callers :
    /\ c # d
    /\ result = Failed(c, "attach", "ENOENT", "ENOENT", 0)
    /\ inst[d] = "live" /\ buf_[d] # NoObj
    /\ name_[d] \in unlinked
    /\ shm_ns[name_[d]] = NoObj

\* C13: Close() is guarded by a null check on the mapped pointer, so that a
\* Close() on an instance whose pointer is already null calls munmap no more,
\* and the region is unmapped at most once.
C13_Claim ==
  /\ [](\A c \in Callers : unmaps[c] <= 1)
  /\ [][\A c \in Callers :
          (inst[c] = "live" /\ buf_[c] = NoObj) => munmaps'[c] = munmaps[c]]_vars

\* the destructor's step that ends the destruction
C14_DestructorEnds(c) == inst[c] = "live" /\ inst'[c] = "destroyed"

\* the pointer is non-null exactly while the instance's mapping exists, and
\* the mapping is removed once
C14_OneMapping ==
  \A c \in Callers :
    /\ inst[c] = "live" =>
         /\ buf_[c] = mapped[c]
         /\ unmaps[c] = (IF mapped[c] = NoObj THEN 1 ELSE 0)
    /\ inst[c] = "destroyed" => (mapped[c] = NoObj /\ unmaps[c] = 1)

\* the destructor unmaps when the pointer is non-null, calls munmap not at all
\* when Close() already succeeded, and leaves the namespace alone
C14_Destructor ==
  \A c \in Callers :
    /\ C14_DestructorEnds(c) =>
         /\ shm_ns' = shm_ns /\ unlinked' = unlinked
         /\ IF buf_[c] = NoObj
              THEN munmaps'[c] = munmaps[c] /\ unmaps'[c] = unmaps[c]
              ELSE munmaps'[c] = munmaps[c] + 1 /\ unmaps'[c] = unmaps[c] + 1
                   /\ mapped[c] = buf_[c] /\ mapped'[c] = NoObj
    /\ (shmAborted' /\ ~shmAborted) => shm_ns' = shm_ns

\* C14: by the end of an instance's destruction its mapping has been unmapped
\* exactly once: by the destructor when Close() never succeeded, not again
\* when Close() succeeded; the destructor never removes the name.
C14_Theorem == [](C14_OneMapping) /\ [][C14_Destructor]_vars

\* an instance destroyed after a successful Close(), its name still linked
C14_Witness ==
  \E c \in Callers :
    /\ inst[c] = "destroyed"
    /\ result = Ok(c, "close", 0)
    /\ munmaps[c] = 1 /\ unmaps[c] = 1
    /\ \E n \in Names : shm_ns[n] # NoObj /\ \A d \in Callers : mapped[d] # shm_ns[n]

\* a step of Unlink() or UnlinkByName(name): a name leaves the namespace, or the
\* call returns its result
C15_UnlinkSteps ==
  \/ \E n \in Names : shm_ns[n] # NoObj /\ shm_ns'[n] = NoObj
  \/ result' # result /\ result'.op \in {"unlink", "unlink_by_name"}

\* Unlink changes the namespace by at most one name and nothing else
C15_Frame ==
  C15_UnlinkSteps =>
    /\ mapped' = mapped /\ buf_' = buf_ /\ size_' = size_ /\ name_' = name_ /\ inst' = inst
    /\ shm_obj' = shm_obj /\ nobjs' = nobjs
    /\ munmaps' = munmaps /\ unmaps' = unmaps /\ shmAborted' = shmAborted
    /\ \A n \in Names : shm_ns'[n] \in {shm_ns[n], NoObj}
    /\ Cardinality({n \in Names : shm_ns'[n] # shm_ns[n]}) <= 1

\* a mapped handle reads and writes all its bytes whether or not its name is
\* linked, its Close() can unmap, and Unlink() of a linked name can succeed
\* whether or not the handle is still mapped
C15_StillUsable ==
  \A c \in Callers :
    (inst[c] = "live" /\ spc[c] = "idle" /\ ~shmAborted) =>
      /\ buf_[c] # NoObj =>
           /\ Len(C11_View(c)) = size_[c]
           /\ shm_obj[buf_[c]].size = size_[c]
           /\ munmaps[c] < MaxUnmaps =>
                ENABLED (Close(c) /\ result' = Ok(c, "close", 0) /\ mapped'[c] = NoObj)
      /\ shm_ns[name_[c]] # NoObj =>
           ENABLED (Unlink(c) /\ result' = Ok(c, "unlink", 0))

\* C15: Unlink() and UnlinkByName(name) change only the namespace: pointers,
\* sizes, names and mappings of all handles stay, the mapped memory stays
\* usable, a later Close() still unmaps, and Unlink and Close may come in
\* either order.
C15_Theorem == [](C15_StillUsable) /\ [][C15_Frame]_vars

\* a handle closed successfully after its name was unlinked, while another
\* handle still reads a written byte of the same region
C15_Witness ==
  \E c, d \in Callers :
    /\ c # d
    /\ inst[c] = "live" /\ name_[c] \in unlinked
    /\ result = Ok(c, "close", 0) /\ buf_[c] = NoObj /\ unmaps[c] = 1
    /\ inst[d] = "live" /\ buf_[d] # NoObj /\ name_[d] = name_[c]
    /\ \E k \in 1..size_[d] : C11_View(d)[k] = 1

\* the step at which either form of Open returns, with a result or an error
C16_OpenReturns(c) ==
  /\ spc[c] \in {"c_open", "c_fallocate", "c_mmap", "c_finish",
                 "a_open", "a_fstat", "a_mmap", "a_finish"}
  /\ spc'[c] = "idle"

\* a descriptor that shm_open returned is closed once by the time Open returns
C16_ClosedOnce ==
  \A c \in Callers :
    C16_OpenReturns(c) =>
      /\ result'.by = c /\ result'.op \in {"create", "attach"}
      /\ fd[c] # NoObj <=> spc[c] \notin {"c_open", "a_open"}
      /\ result'.closes = (IF fd[c] # NoObj THEN 1 ELSE 0)
      /\ fd'[c] = NoObj

\* a caller outside Open holds no descriptor, a caller inside holds at most
\* the one its shm_open returned
C16_NoDescriptorLeft ==
  \A c \in Callers :
    /\ spc[c] \in {"idle", "c_open", "a_open"} => fd[c] = NoObj
    /\ spc[c] \notin {"idle", "c_open", "a_open"} => fd[c] # NoObj

\* C16: on every exit path of either Open form taken after shm_open
\* succeeded (failure of posix_fallocate, fstat or mmap, or success) the
\* descriptor is closed exactly once before Open returns, and no descriptor
\* stays open after Open returns.
C16_Theorem == [](C16_NoDescriptorLeft) /\ [][C16_ClosedOnce]_vars

\* the create form returned a mapping failure after it had created the
\* region, with the descriptor closed
C16_Witness ==
  \E c \in Callers :
    /\ result = Failed(c, "create", "ENOMEM", "ENOMEM", 1)
    /\ spc[c] = "idle" /\ fd[c] = NoObj /\ inst[c] = "none"
    /\ \E n \in Names : shm_ns[n] # NoObj /\ shm_obj[shm_ns[n]].size = MaxShmSize

\* the locals of a caller's Open call
C17_OpenLocals(c) == <<fd[c], shm_name[c], shm_size[c], ptr[c], created[c]>>
\* a round of the loop of ShmOpen(&shm_name, &fd) that goes round again
C17_RetrySteps(c) == spc[c] = "c_open" /\ spc'[c] = "c_open" /\ shm_name'[c] # shm_name[c]

\* the loop goes round again only for a generated name that collides, and the
\* round changes nothing but the candidate
C17_RetryOnlyOnCollision ==
  \A c \in Callers :
    C17_RetrySteps(c) =>
      /\ Anon(c)
      /\ shm_ns[shm_name'[c]] # NoObj
      /\ shm_ns' = shm_ns /\ shm_obj' = shm_obj /\ nobjs' = nobjs /\ mapped' = mapped
      /\ result' = result /\ fd'[c] = NoObj

\* any other outcome of shm_open ends the loop: success with a name that did
\* not collide, or an error that is returned
C17_OtherOutcomesEnd ==
  \A c \in Callers :
    /\ (spc[c] = "c_open" /\ spc'[c] = "c_fallocate") =>
         (shm_ns[shm_name'[c]] = NoObj /\ shm_ns'[shm_name'[c]] = fd'[c])
    /\ (spc[c] = "c_open" /\ spc'[c] = "idle") =>
         /\ result'.by = c /\ ~result'.ok /\ result'.op = "create"
         /\ result'.errno \in {"EEXIST", "EMFILE"}
         /\ Anon(c) => result'.errno # "EEXIST"

\* nothing else is retried: outside the loop a caller's call never takes a
\* step that leaves it at the same place
C17_NoOtherRetry ==
  \A c \in Callers :
    (spc'[c] = spc[c] /\ (spc[c] # "c_open" \/ ~Anon(c))) => C17_OpenLocals(c)' = C17_OpenLocals(c)

\* C17: the anonymous name loop retries with a new name exactly when the
\* exclusive creation reports EEXIST; success or any other error ends it at
\* once, and no other system call of Open is retried.
C17_Theorem == [][C17_RetryOnlyOnCollision /\ C17_OtherOutcomesEnd /\ C17_NoOtherRetry]_vars

\* an anonymous Open whose generated name collided with a linked region is
\* about to try another name
C17_Witness ==
  \E c, d \in Callers :
    /\ c # d
    /\ spc[c] = "c_open" /\ Anon(c)
    /\ shm_name[c] \in Names /\ shm_ns[shm_name[c]] # NoObj
    /\ C11_Linked(d) /\ name_[d] = shm_name[c]
    /\ \E n \in Names : shm_ns[n] = NoObj

\* a create-form Open that has its region and has not returned yet
C18_InCreate(c) == spc[c] \in {"c_fallocate", "c_mmap", "c_finish"}
\* a step of a caller's create-form Open
C18_OpenCreateSteps(c) ==
  /\ spc[c] \in {"c_open", "c_fallocate", "c_mmap", "c_finish"}
  /\ spc'[c] # spc[c] \/ C17_RetrySteps(c)

\* no region is the region of two create calls, and two calls under way have
\* different regions and, while both are linked, different names
C18_DistinctRegions ==
  /\ \A o \in Objs : creators[o] <= 1
  /\ \A o \in Objs : o > nobjs => creators[o] = 0
  /\ \A c, d \in Callers :
       (c # d /\ C18_InCreate(c) /\ C18_InCreate(d)) =>
         /\ created[c] # created[d]
         /\ fd[c] # fd[d]
         /\ (shm_ns[shm_name[c]] = created[c] /\ shm_ns[shm_name[d]] = created[d]) =>
              shm_name[c] # shm_name[d]

\* the winner of a name takes a name that no linked region has, and a region
\* that nobody maps or holds
C18_WinnerIsAlone ==
  \A c, d \in Callers :
    (c # d /\ spc[c] = "c_open" /\ spc'[c] = "c_fallocate") =>
      /\ C11_Linked(d) => (shm_name'[c] # name_[d] /\ created'[c] # buf_[d])
      /\ (C18_InCreate(d) /\ shm_ns[shm_name[d]] = created[d]) => shm_name'[c] # shm_name[d]
      /\ C18_InCreate(d) => created'[c] # created[d]
      /\ mapped[d] # created'[c]

\* a step of a create call maps and writes no region but the call's own
C18_LoserTouchesNothing ==
  \A c \in Callers :
    C18_OpenCreateSteps(c) =>
      /\ \A o \in Objs : (o # created'[c] /\ o # created[c]) => shm_obj'[o] = shm_obj[o]
      /\ mapped'[c] \in {mapped[c], created[c]}
      /\ \A d \in Callers : d # c => mapped'[d] = mapped[d]
      /\ C17_RetrySteps(c) => (shm_obj' = shm_obj /\ mapped' = mapped /\ shm_ns' = shm_ns)

\* C18: of N concurrent anonymous Open(size) calls no two successful ones
\* return the same region, or the same name while both are linked, also when
\* the generator gives two of them the same candidate: the loser of the
\* exclusive create retries and neither maps nor zeroes the winner's region.
C18_Theorem ==
  /\ [](C18_DistinctRegions)
  /\ [][C18_WinnerIsAlone /\ C18_LoserTouchesNothing]_vars

\* two anonymous Opens under way: one has created its region, the other's
\* candidate was the same name and it is about to try another
C18_Witness ==
  \E c, d \in Callers :
    /\ c # d
    /\ C18_InCreate(c) /\ Anon(c) /\ shm_ns[shm_name[c]] = created[c]
    /\ spc[d] = "c_open" /\ Anon(d) /\ shm_name[d] = shm_name[c]
    /\ shm_obj[created[c]].size = MaxShmSize

\* C19: every error result of Open (both forms), Close, Unlink and
\* UnlinkByName carries the errno of the system call that failed, not the
\* call's raw return value.
C19_Claim == ~result.ok => result.ret = result.errno

\* an unmap failure is never handed back to the caller of Close()
C20_UnmapFailureFatal == (result.op = "close" => result.ok)
\* a failed ibv_dereg_mr stops the process inside the pool's destructor
C20_DeregFailureFatal == (aborted = "dereg_mr" => (poolState = "destroying" /\ dtorPc = "dereg"))

\* C20: a failure to unmap a shared-memory region and a failure to deregister
\* an RDMA memory region are fatal on every path (explicit Close, destructor,
\* pool destruction) and never returned to the caller as an error.
C20_Claim == C20_UnmapFailureFatal /\ C20_DeregFailureFatal

(***************************************************************************)
(* Further properties of IBVerbsMessagePool                                *)
(***************************************************************************)
\* no GetMessage or PutMessage call is between lock and unlock, and the
\* process runs with defined behaviour
C21_BetweenCalls == aborted = "no" /\ poolState = "alive" /\ message_buf_mutex_ = NoThread

\* C21 (state part): between calls, with PutMessage given leased buffers only,
\* free buffers + leased buffers = B x registered regions, the region and the
\* raw-buffer collections are equally long, and no buffer is free twice.
C21_Accounting ==
  C21_BetweenCalls =>
    /\ Len(message_buf_) + Cardinality(Out) = num_msg_per_bluk_allocation_ * Len(ibv_mr_buf_)
    /\ Len(ibv_mr_buf_) = Len(memory_buf_)
    /\ NoDup(message_buf_)
    /\ Out \cap Elems(message_buf_) = {}

\* C21 (step part): a call that returns leaves the accounting as it found it:
\* a push adds one free buffer that was leased, a pop leases one that was free.
C21_CallsPreserve ==
  /\ \A t \in Threads : (pc[t] = "put_push" /\ pc'[t] = "put_ret") =>
       /\ msg_mr[t] \notin Elems(message_buf_)
       /\ Len(message_buf_') = Len(message_buf_) + 1
  /\ \A t \in Threads : (pc[t] = "get_pop" /\ pc'[t] = "get_ret" /\ aborted' = "no") =>
       /\ msg_mr'[t] \in Elems(message_buf_)
       /\ Len(message_buf_') = Len(message_buf_) - 1

\* C21: the buffer accounting of the pool is an invariant of every sequence
\* of GetMessage and PutMessage calls that returns only leased buffers.
C21_Theorem == [](C21_Accounting) /\ [][C21_CallsPreserve]_vars

C21_Witness ==
  /\ C21_BetweenCalls
  /\ \A t \in Threads : pc[t] = "idle"
  /\ Len(ibv_mr_buf_) = 2
  /\ nputs >= 2
  /\ message_buf_ # <<>>
  /\ Cardinality(leased) >= 2

\* ceil(p / b) for b >= 1
C22_CeilDiv(p, b) == (p + b - 1) \div b

\* no GetMessage call is between its decision to allocate and its pop
C22_NoAllocPending ==
  \A t \in Threads :
    /\ pc[t] \notin {"alloc_malloc", "alloc_reg", "alloc_push_mr", "alloc_push_mem", "alloc_loop"}
    /\ ~(pc[t] = "get_pop" /\ didAlloc[t])

\* C22 (state part): with batch size B >= 1 the number of bulk allocations is
\* ceil(P / B), P the largest number of buffers that were leased at once.
C22_Count ==
  (aborted = "no" /\ C22_NoAllocPending /\ num_msg_per_bluk_allocation_ >= 1)
    => nallocs = C22_CeilDiv(peak, num_msg_per_bluk_allocation_)

\* C22 (step part): a region is registered and recorded only while no buffer
\* is free, and a GetMessage that finds a free buffer takes it without
\* allocating.
C22_GrowsOnlyWhenEmpty ==
  /\ (nallocs' # nallocs \/ registered' \ registered # {} \/ Len(ibv_mr_buf_') > Len(ibv_mr_buf_))
       => message_buf_ = <<>>
  /\ \A t \in Threads :
       (pc[t] = "get_test" /\ pc'[t] # pc[t] /\ message_buf_ # <<>>)
         => (pc'[t] = "get_pop" /\ nallocs' = nallocs)

\* C22: the pool grows by ceil(P / B) batches, never while a buffer is free.
C22_Theorem == [](C22_Count) /\ [][C22_GrowsOnlyWhenEmpty]_vars

C22_Witness ==
  /\ \A t \in Threads : pc[t] = "idle"
  /\ aborted = "no"
  /\ num_msg_per_bluk_allocation_ = 2
  /\ nallocs = 2
  /\ peak = 3
  /\ nputs >= 1
  /\ ngets = MaxGets

\* C23 as claimed: for every batch count the constructor accepts, 0 included,
\* GetMessageFromBuf runs only on a non-empty free-list, so GetMessage never
\* reads or pops an empty free-list and returns a buffer a bulk allocation made.
C23_Claim ==
  /\ \A t \in Threads : pc[t] = "get_pop" => message_buf_ # <<>>
  /\ \A t \in Threads : pc[t] = "get_ret" => msg_mr[t].id \in 1..(nextMsgId - 1)
  /\ aborted \notin {"segv", "wild_pop"}

\* a create-form Open returns an error from posix_fallocate or from ShmMap
C24_OpenCreateFailsLate(c) == spc[c] \in {"c_fallocate", "c_mmap"} /\ spc'[c] = "idle"
\* names bound to a region whose creating Open failed after shm_open
C24_HalfInitialized == {n \in Names : shm_ns[n] # NoObj /\ abandoned[shm_ns[n]] # "none"}

\* C24 (the failure): the error return closes the descriptor and leaves the
\* namespace and the region as they are
C24_NameNotRemoved ==
  \A c \in Callers :
    C24_OpenCreateFailsLate(c) =>
      /\ ~result'.ok /\ result'.by = c /\ result'.closes = 1
      /\ shm_ns' = shm_ns
      /\ shm_obj' = shm_obj
      /\ shm_ns[shm_name[c]] = created[c] => shm_name[c] \in C24_HalfInitialized'

\* C24 (afterwards): only shm_unlink takes the name of such a region away
C24_StaysUntilUnlink ==
  \A n \in C24_HalfInitialized : shm_ns'[n] # shm_ns[n] => (n \in unlinked' /\ shm_ns'[n] = NoObj)

\* C24 (later create): Open(name, size) on that name fails with EEXIST
C24_LaterCreateFails ==
  \A c \in Callers :
    (spc[c] = "c_open" /\ spc'[c] # "c_open" /\ ~Anon(c) /\ shm_name[c] \in C24_HalfInitialized)
      => /\ result' = Failed(c, "create", "EEXIST", "EEXIST", 0)
         /\ spc'[c] = "idle"
         /\ shm_ns' = shm_ns /\ shm_obj' = shm_obj

\* C24 (later attach): Open(name) opens that region
C24_LaterAttachFinds ==
  \A c \in Callers :
    (spc[c] = "a_open" /\ spc'[c] # "a_open" /\ shm_name[c] \in C24_HalfInitialized)
      => \/ spc'[c] = "a_fstat" /\ fd'[c] = shm_ns[shm_name[c]]
         \/ spc'[c] = "idle" /\ ~result'.ok /\ result'.errno = "EMFILE"

\* C24: a create-form Open that fails at preallocation or at mapping leaves
\* the name it created in the namespace; a later create on the name fails
\* with EEXIST and a later attach opens the half-initialized region.
C24_Theorem ==
  [][C24_NameNotRemoved /\ C24_StaysUntilUnlink /\ C24_LaterCreateFails /\ C24_LaterAttachFinds]_vars

C24_Witness ==
  /\ nobjs = 1
  /\ C24_HalfInitialized # {}
  /\ result.op = "create" /\ result.errno = "EEXIST"

\* the shm_open of a create-form Open with a caller-given name that is taken
C25_CreateOnTakenName(c) == spc[c] = "c_open" /\ ~Anon(c) /\ shm_ns[shm_name[c]] # NoObj

\* C25 (no retry): such a call cannot go round a loop; its shm_open ends it
C25_NoRetry ==
  \A c \in Callers :
    C25_CreateOnTakenName(c) => ~ENABLED (OpenCreateShmOpen(c) /\ spc'[c] = "c_open")

\* C25 (the failure): the call returns EEXIST and the region bound to the
\* name keeps its size, its bytes, its name and the mappings other handles hold
C25_FailsAndKeepsRegion ==
  \A c \in Callers :
    (C25_CreateOnTakenName(c) /\ spc'[c] # "c_open") =>
      /\ result' = Failed(c, "create", "EEXIST", "EEXIST", 0)
      /\ spc'[c] = "idle"
      /\ inst'[c] # "live"
      /\ shm_ns' = shm_ns
      /\ shm_obj' = shm_obj
      /\ nobjs' = nobjs
      /\ mapped' = mapped
      /\ buf_' = buf_ /\ size_' = size_ /\ name_' = name_

\* C25: Open(name, size) on an existing caller-given name fails without
\* retry and leaves the existing region unchanged.
C25_Theorem == [](C25_NoRetry) /\ [][C25_FailsAndKeepsRegion]_vars

C25_Witness ==
  /\ nobjs = 1
  /\ result.op = "create" /\ result.errno = "EEXIST"
  /\ \E d \in Callers :
       /\ result.by # d
       /\ inst[d] = "live"
       /\ buf_[d] # NoObj
       /\ mapped[d] = buf_[d]
       /\ shm_ns[name_[d]] = buf_[d]
       /\ shm_obj[buf_[d]].size = 1
       /\ shm_obj[buf_[d]].bytes = <<1>>

(***************************************************************************)
(* promoteTypes (dtype.cpp)                                                *)
(***************************************************************************)
\* DataType, numbered as in the comment of promoteTypes
kChar == 1
kFloat == 2
kDouble == 3
kInt8 == 4
kInt32 == 5
kInt64 == 6
kUInt8 == 7
kOFRecord == 8
kFloat16 == 9
kTensorBuffer == 10
kBFloat16 == 11
kMaxDataType == 12
DataTypes == 0 .. (kMaxDataType - 1)

\* const int DType::priority_order[DataType::kMaxDataType]
priority_order == <<0, 2, 7, 8, 3, 4, 5, 1, 10, 6, 11, 9>>

\* static const Symbol<DType> _promoteTypesLookup[kMaxDataType][kMaxDataType]
promoteTypesLookupF8OverBf ==
  LET iv == kInvalidDataType  c1 == kChar      f4 == kFloat         f8 == kDouble
      i1 == kInt8             i4 == kInt32     i8 == kInt64         u1 == kUInt8
      re == kOFRecord         f2 == kFloat16   bu == kTensorBuffer  bf == kBFloat16
  IN << <<iv, c1, f4, f8, i1, i4, i8, u1, re, f2, bu, bf>>,
        <<c1, c1, f4, f8, i1, i4, i8, c1, re, f2, bu, bf>>,
        <<f4, f4, f4, f8, f4, f4, f4, f4, re, f4, bu, bf>>,
        <<f8, f8, f8, f8, f8, f8, f8, f8, re, f8, bu, f8>>,
        <<i1, i1, f4, f8, i1, i4, i8, i1, re, f2, bu, bf>>,
        <<i4, i4, f4, f8, i4, i4, i8, i4, re, f2, bu, bf>>,
        <<i8, i8, f4, f8, i8, i8, i8, i8, re, f2, bu, bf>>,
        <<u1, c1, f4, f8, i1, i4, i8, u1, re, f2, bu, bf>>,
        <<re, re, re, re, re, re, re, re, re, re, bu, re>>,
        <<f2, f2, f4, f8, f2, f2, f2, f2, re, f2, bu, bf>>,
        <<bu, bu, bu, bu, bu, bu, bu, bu, bu, bu, bu, bu>>,
        <<bf, bf, bf, bf, bf, bf, bf, bf, re, bf, bu, bf>> >>
promoteTypesLookup ==
  LET iv == kInvalidDataType  c1 == kChar      f4 == kFloat         f8 == kDouble
      i1 == kInt8             i4 == kInt32     i8 == kInt64         u1 == kUInt8
      re == kOFRecord         f2 == kFloat16   bu == kTensorBuffer  bf == kBFloat16
  IN << <<iv, c1, f4, f8, i1, i4, i8, u1, re, f2, bu, bf>>,
        <<c1, c1, f4, f8, i1, i4, i8, c1, re, f2, bu, bf>>,
        <<f4, f4, f4, f8, f4, f4, f4, f4, re, f4, bu, bf>>,
        <<f8, f8, f8, f8, f8, f8, f8, f8, re, f8, bu, bf>>,
        <<i1, i1, f4, f8, i1, i4, i8, i1, re, f2, bu, bf>>,
        <<i4, i4, f4, f8, i4, i4, i8, i4, re, f2, bu, bf>>,
        <<i8, i8, f4, f8, i8, i8, i8, i8, re, f2, bu, bf>>,
        <<u1, c1, f4, f8, i1, i4, i8, u1, re, f2, bu, bf>>,
        <<re, re, re, re, re, re, re, re, re, re, bu, re>>,
        <<f2, f2, f4, f8, f2, f2, f2, f2, re, f2, bu, bf>>,
        <<bu, bu, bu, bu, bu, bu, bu, bu, bu, bu, bu, bu>>,
        <<bf, bf, bf, bf, bf, bf, bf, bf, re, bf, bu, bf>> >>

\* return _promoteTypesLookup[static_cast<int>(a->data_type())][static_cast<int>(b->data_type())];
promoteTypes(a, b) == promoteTypesLookup[a + 1][b + 1]

\* two types, and a third one to combine the result with
PromoteFields ==
  /\ pt_a \in DataTypes
  /\ pt_b \in DataTypes
  /\ pt_c \in DataTypes
  /\ pt_r = NoDataType
PromoteInit == PromoteFields /\ PoolParked /\ OperandParked /\ ShmParked /\ LibParked /\ SubspaceParked /\ ConcatParked /\ SplitParked

\* r = promoteTypes(a, b)
CallPromoteTypes ==
  /\ pt_r = NoDataType
  /\ pt_r' = promoteTypes(pt_a, pt_b)
  /\ UNCHANGED <<pt_a, pt_b, pt_c>>
  /\ UNCHANGED <<poolVars, opVars, shmVars>>
  /\ UNCHANGED spVars
  /\ UNCHANGED catVars
  /\ UNCHANGED csVars
  /\ UNCHANGED flVars

PromoteNext == CallPromoteTypes

SpecPromote == PromoteInit /\ [][PromoteNext]_vars

\* the type of a and b that ranks higher in DType::priority_order
C26_HigherPriority(a, b) == IF priority_order[a + 1] >= priority_order[b + 1] THEN a ELSE b
\* the order the comment of priority_order documents, lowest first
C26_DocumentedOrder == <<kInvalidDataType, kUInt8, kChar, kInt8, kInt32, kInt64, kFloat16, kFloat,
                     kDouble, kBFloat16, kOFRecord, kTensorBuffer>>

\* C26: promoteTypes(a, b) is the one of a and b that ranks higher in the
\* documented priority order, which is the order priority_order encodes; it
\* is commutative, associative and idempotent, with kInvalidDataType as identity.
C26_Theorem ==
  /\ \A k \in 1..kMaxDataType : priority_order[C26_DocumentedOrder[k] + 1] = k - 1
  /\ pt_r # NoDataType =>
       /\ pt_r = C26_HigherPriority(pt_a, pt_b)
       /\ pt_r \in {pt_a, pt_b}
       /\ promoteTypes(pt_b, pt_a) = pt_r
       /\ promoteTypes(pt_r, pt_c) = promoteTypes(pt_a, promoteTypes(pt_b, pt_c))
       /\ promoteTypes(pt_a, pt_a) = pt_a
       /\ promoteTypes(pt_a, kInvalidDataType) = pt_a
       /\ promoteTypes(kInvalidDataType, pt_a) = pt_a

C26_Witness ==
  /\ pt_a = kDouble
  /\ pt_b = kBFloat16
  /\ pt_c = kFloat16
  /\ pt_r = kBFloat16

(***************************************************************************)
(* FunctionLibrary (function_library.h)                                    *)
(***************************************************************************)
\* function signatures FType, each with its own static map
NumSigs == 2
\* functor names
NumFuncNames == 2
\* functor classes Func that can be registered under a signature
NumFuncs == 2
\* cap on the number of add_functor / find calls of one run
MaxLibCalls == 4

Sigs == 1..NumSigs
FuncNames == 1..NumFuncNames
Funcs == 1..NumFuncs

\* the entries of PackedFuncMap<FType>::Get() for a name
Bound(reg, sig, name) == {e \in reg : e[1] = sig /\ e[2] = name}

\* functors->count(func_name) == 0
CountIgnored(reg, sig, name) == TRUE
CountIsZero(reg, sig, name) == Bound(reg, sig, name) = {}

\* functors->emplace(func_name, creator): no effect when the key is present
Emplace(reg, sig, name, func) ==
  IF Bound(reg, sig, name) # {} THEN reg ELSE reg \cup {<<sig, name, func>>}

\* functors->find(func_name) != functors->end()
Found(reg, sig, name) == Bound(reg, sig, name) # {}

\* CHECK_OR_RETURN(cond): the function goes on when cond holds and returns an
\* error otherwise
CheckOrReturnPasses(cond) == cond

LibInit == LibParked /\ PoolParked /\ OperandParked /\ ShmParked /\ PromoteParked /\ SubspaceParked /\ ConcatParked /\ SplitParked

\* template<typename Func> void add_functor(const std::string& func_name)
add_functor(sig, name, func) ==
  /\ ~lib_aborted
  /\ lib_ncalls < MaxLibCalls
  /\ lib_ncalls' = lib_ncalls + 1
  /\ lib_last' = [op |-> "add", sig |-> sig, name |-> name, ok |-> TRUE, func |-> NoFunc]
  /\ IF CountIsZero(functors, sig, name)
       THEN /\ functors' = Emplace(functors, sig, name, func)
            /\ UNCHANGED lib_aborted
       ELSE \* CHECK_EQ fails
            /\ lib_aborted' = TRUE
            /\ UNCHANGED functors
  /\ UNCHANGED <<poolVars, opVars, shmVars>>
  /\ UNCHANGED spVars
  /\ UNCHANGED catVars
  /\ UNCHANGED csVars
  /\ UNCHANGED ptVars

\* template<typename R, typename... Args> auto find(const std::string& func_name)
find(sig, name) ==
  /\ ~lib_aborted
  /\ lib_ncalls < MaxLibCalls
  /\ lib_ncalls' = lib_ncalls + 1
  /\ IF CheckOrReturnPasses(Found(functors, sig, name))
       THEN \* return it->second();
            \E e \in Bound(functors, sig, name) :
              lib_last' = [op |-> "find", sig |-> sig, name |-> name, ok |-> TRUE, func |-> e[3]]
       ELSE lib_last' = [op |-> "find", sig |-> sig, name |-> name, ok |-> FALSE, func |-> NoFunc]
  /\ UNCHANGED <<functors, lib_aborted>>
  /\ UNCHANGED <<poolVars, opVars, shmVars>>
  /\ UNCHANGED spVars
  /\ UNCHANGED catVars
  /\ UNCHANGED csVars
  /\ UNCHANGED ptVars

LibNext ==
  \/ \E sig \in Sigs, name \in FuncNames, func \in Funcs : add_functor(sig, name, func)
  \/ \E sig \in Sigs, name \in FuncNames : find(sig, name)

SpecLib == LibInit /\ [][LibNext]_vars

\* a call was made in this step
C27_Called(op) == lib_ncalls' = lib_ncalls + 1 /\ lib_last'.op = op

\* C27 (state part): a (signature, name) pair has at most one functor creator
C27_AtMostOne ==
  \A e1, e2 \in functors : (e1[1] = e2[1] /\ e1[2] = e2[2]) => e1 = e2

\* C27 (add_functor): registering a name again for its signature aborts and
\* leaves the registry as it is; a new name is bound without aborting; no
\* binding is ever dropped or replaced
C27_AddFunctor ==
  /\ functors \subseteq functors'
  /\ C27_Called("add") =>
       IF Bound(functors, lib_last'.sig, lib_last'.name) # {}
         THEN lib_aborted' /\ functors' = functors
         ELSE /\ ~lib_aborted'
              /\ Cardinality(Bound(functors', lib_last'.sig, lib_last'.name)) = 1
              /\ Cardinality(functors') = Cardinality(functors) + 1

\* C27 (find): find returns the functor bound to the name for that signature,
\* and an error when there is none; it neither aborts nor changes the registry
C27_Find ==
  C27_Called("find") =>
    /\ functors' = functors
    /\ ~lib_aborted'
    /\ IF Bound(functors, lib_last'.sig, lib_last'.name) # {}
         THEN /\ lib_last'.ok
              /\ Bound(functors, lib_last'.sig, lib_last'.name)
                   = {<<lib_last'.sig, lib_last'.name, lib_last'.func>>}
         ELSE ~lib_last'.ok /\ lib_last'.func = NoFunc

\* C27: each (signature, name) pair is bound to at most one functor creator;
\* add_functor of a registered name aborts and keeps the binding; find returns
\* the bound functor or an error, without aborting or changing the registry.
C27_Theorem == [](C27_AtMostOne) /\ [][C27_AddFunctor /\ C27_Find]_vars

C27_Witness ==
  /\ lib_aborted
  /\ lib_last.op = "add"
  /\ Bound(functors, lib_last.sig, lib_last.name) # {}
  /\ \E e \in functors : e[1] # lib_last.sig /\ e[2] = lib_last.name
  /\ lib_ncalls = MaxLibCalls

(***************************************************************************)
(* IsContinuosSubspace (tensor_index.cpp)                                  *)
(***************************************************************************)
\* largest number of entries of an index tuple
MaxIndices == 5

\* index tuples: TRUE for an entry that holds a tensor, FALSE for a null entry
RECURSIVE IndexTuples(_)
IndexTuples(n) ==
  IF n = 0 THEN {<<>>}
  ELSE IndexTuples(n - 1) \cup {Append(q, x) : q \in {p \in IndexTuples(n - 1) : Len(p) = n - 1},
                                               x \in BOOLEAN}

SubspaceFields ==
  /\ cs_indices \in IndexTuples(MaxIndices)
  /\ cs_i = 0
  /\ cs_token = 0
  /\ cs_ret = "none"
SubspaceInit == SubspaceFields /\ PoolParked /\ OperandParked /\ ShmParked /\ PromoteParked /\ LibParked /\ ConcatParked /\ SplitParked

\* one round of: for (int i = 0; i < indices.size(); ++i) { ... }
SubspaceLoop ==
  /\ cs_ret = "none"
  /\ cs_i < Len(cs_indices)
  /\ IF cs_indices[cs_i + 1] /\ cs_token = 0
       THEN \* token = 1;
            /\ cs_token' = 1
            /\ cs_i' = cs_i + 1
            /\ UNCHANGED cs_ret
       ELSE IF cs_indices[cs_i + 1] /\ cs_token # 0
         THEN \* if (token != 1) { return false; }
              IF cs_token # 1
                THEN /\ cs_ret' = "false"
                     /\ UNCHANGED <<cs_i, cs_token>>
                ELSE /\ cs_i' = cs_i + 1
                     /\ UNCHANGED <<cs_token, cs_ret>>
         ELSE IF cs_token = 0
           THEN \* else if (!token) { token += 1; }
                /\ cs_token' = cs_token + 1
                /\ cs_i' = cs_i + 1
                /\ UNCHANGED cs_ret
           ELSE /\ cs_i' = cs_i + 1
                /\ UNCHANGED <<cs_token, cs_ret>>
  /\ UNCHANGED cs_indices
  /\ UNCHANGED <<poolVars, opVars, shmVars>>
  /\ UNCHANGED spVars
  /\ UNCHANGED catVars
  /\ UNCHANGED <<ptVars, flVars>>

\* return true;
SubspaceReturn ==
  /\ cs_ret = "none"
  /\ cs_i = Len(cs_indices)
  /\ cs_ret' = "true"
  /\ UNCHANGED <<cs_indices, cs_i, cs_token>>
  /\ UNCHANGED <<poolVars, opVars, shmVars>>
  /\ UNCHANGED spVars
  /\ UNCHANGED catVars
  /\ UNCHANGED <<ptVars, flVars>>

SubspaceNext == SubspaceLoop \/ SubspaceReturn

SpecSubspace == SubspaceInit /\ [][SubspaceNext]_vars

\* positions of the entries that hold a tensor
C28_NonNull(q) == {k \in 1..Len(q) : q[k]}
\* the entries that hold a tensor form one run without a null entry inside
C28_OneRun(q) == \A j, k \in C28_NonNull(q) : \A m \in j..k : q[m]
\* if (is_continuos_subspace) { result = JUST(AdjustSubspace(result, indices, index_ndim)); }
C28_AdjustSubspaceCalled == cs_ret = "true"

\* C28 as claimed: IsContinuosSubspace returns true iff the non-null entries
\* form one contiguous run, false for tuples such as [t, null, t], so that
\* AdjustSubspace is called only for contiguous index subspaces.
C28_Claim ==
  /\ cs_ret # "none" => (cs_ret = "true" <=> C28_OneRun(cs_indices))
  /\ C28_AdjustSubspaceCalled => C28_OneRun(cs_indices)

(***************************************************************************)
(* ConcatFunctor (array_functor.cpp)                                       *)
(***************************************************************************)
\* kMaxInputCount, scaled down
kMaxInputCount == 3
\* largest number of tensors passed to the functor
MaxInputs == 30

\* ops_ after the constructor: ops_[n] takes n + 1 inputs for n >= 1, ops_[0]
\* is left a null pointer by resize()
NullOp == 0
ops_ == [n \in 0 .. (kMaxInputCount - 1) |-> IF n >= 1 THEN n + 1 ELSE NullOp]

\* size_t size = (i + kMaxInputCount) < inputs.size() ? kMaxInputCount : inputs.size() - i;
ChunkSize(i, n) == IF i + kMaxInputCount < n THEN kMaxInputCount ELSE n - i

ConcatFields ==
  /\ cat_n \in 0..MaxInputs
  /\ cat_i = 0
  /\ cat_outputs = 0
  /\ cat_size = 0
  /\ cat_depth = 0
  /\ cat_state = "call"
ConcatInit ==
  ConcatFields /\ PoolParked /\ OperandParked /\ ShmParked /\ PromoteParked /\ LibParked
               /\ SubspaceParked /\ SplitParked

\* CHECK_GE_OR_RETURN(inputs.size(), 2); ... TensorTuple outputs;
ConcatEnter ==
  /\ cat_state = "call"
  /\ cat_state' = IF cat_n >= 2 THEN "run" ELSE "error"
  /\ cat_i' = 0
  /\ cat_outputs' = 0
  /\ UNCHANGED <<cat_n, cat_size, cat_depth>>
  /\ UNCHANGED <<poolVars, opVars, shmVars>>
  /\ UNCHANGED spVars
  /\ UNCHANGED <<ptVars, flVars, csVars>>

\* one round of the loop: outputs.push_back(Dispatch(*ops_.at(size - 1), partial_inputs, attrs));
\* *ops_.at(0) dereferences a null shared_ptr: the process dies, or Dispatch
\* runs on whatever the null reference yields
ConcatDispatch ==
  /\ cat_state = "run"
  /\ cat_i < cat_n
  /\ cat_size' = ChunkSize(cat_i, cat_n)
  /\ IF ops_[ChunkSize(cat_i, cat_n) - 1] # NullOp
       THEN /\ cat_outputs' = cat_outputs + 1
            /\ cat_i' = cat_i + kMaxInputCount
            /\ UNCHANGED cat_state
       ELSE \/ /\ cat_state' = "segv"
               /\ UNCHANGED <<cat_outputs, cat_i>>
            \/ /\ cat_outputs' = cat_outputs + 1
               /\ cat_i' = cat_i + kMaxInputCount
               /\ UNCHANGED cat_state
  /\ UNCHANGED <<cat_n, cat_depth>>
  /\ UNCHANGED <<poolVars, opVars, shmVars>>
  /\ UNCHANGED spVars
  /\ UNCHANGED <<ptVars, flVars, csVars>>

\* if (outputs.size() == 1) { return outputs.at(0); } return this->operator()(outputs, ...);
ConcatFinish ==
  /\ cat_state = "run"
  /\ cat_i >= cat_n
  /\ IF cat_outputs = 1
       THEN /\ cat_state' = "done"
            /\ UNCHANGED <<cat_n, cat_depth>>
       ELSE /\ cat_state' = "call"
            /\ cat_n' = cat_outputs
            /\ cat_depth' = cat_depth + 1
  /\ UNCHANGED <<cat_i, cat_outputs, cat_size>>
  /\ UNCHANGED <<poolVars, opVars, shmVars>>
  /\ UNCHANGED spVars
  /\ UNCHANGED <<ptVars, flVars, csVars>>

ConcatNext == ConcatEnter \/ ConcatDispatch \/ ConcatFinish

SpecConcat == ConcatInit /\ [][ConcatNext]_vars

\* C29 as claimed: for n >= 2 every chunk ConcatFunctor dispatches has between
\* 2 and kMaxInputCount inputs, so only op expressions the constructor built
\* are dereferenced, never ops_[0].
C29_Claim ==
  /\ cat_size # 0 => (cat_size \in 2..kMaxInputCount /\ ops_[cat_size - 1] # NullOp)
  /\ cat_state # "segv"

(***************************************************************************)
(* SplitFunctor (array_functor.cpp)                                        *)
(***************************************************************************)
\* largest size of the split dimension
MaxDimSize == 6
\* largest split_size passed
MaxSplitSize == 4

\* std::max<int64_t>
Max64(a, b) == IF a >= b THEN a ELSE b

SplitFields ==
  /\ sp_dim_size \in 0..MaxDimSize
  /\ sp_split_size \in (0 - 1) .. MaxSplitSize
  /\ sp_num_splits = 0
  /\ sp_last_split_size = 0
  /\ sp_i = 0
  /\ sp_splits = <<>>
  /\ sp_state = "call"
SplitInit ==
  SplitFields /\ PoolParked /\ OperandParked /\ ShmParked /\ PromoteParked /\ LibParked
              /\ SubspaceParked /\ ConcatParked

\* CHECK_GE_OR_RETURN(split_size, 0); int64_t dim_size = x->shape()->At(dim);
SplitCheck ==
  /\ sp_state = "call"
  /\ sp_state' = IF sp_split_size >= 0 THEN "compute" ELSE "error"
  /\ UNCHANGED <<sp_dim_size, sp_split_size, sp_num_splits, sp_last_split_size, sp_i, sp_splits>>
  /\ UNCHANGED <<poolVars, opVars, shmVars>>
  /\ UNCHANGED <<ptVars, flVars, csVars, catVars>>

\* int64_t num_splits = std::max<int64_t>((dim_size + split_size - 1) / split_size, 1);
\* int64_t last_split_size = split_size - (split_size * num_splits - dim_size);
\* an integer division by zero is undefined: the process gets SIGFPE, or the
\* division yields 0 on hardware that does not trap
SplitCompute ==
  /\ sp_state = "compute"
  /\ IF sp_split_size # 0
       THEN LET n == Max64((sp_dim_size + sp_split_size - 1) \div sp_split_size, 1) IN
            /\ sp_num_splits' = n
            /\ sp_last_split_size' = sp_split_size - (sp_split_size * n - sp_dim_size)
            /\ sp_state' = "loop"
       ELSE \/ /\ sp_state' = "sigfpe"
               /\ UNCHANGED <<sp_num_splits, sp_last_split_size>>
            \/ LET n == Max64(0, 1) IN
               /\ sp_num_splits' = n
               /\ sp_last_split_size' = sp_split_size - (sp_split_size * n - sp_dim_size)
               /\ sp_state' = "loop"
  /\ sp_i' = 0
  /\ UNCHANGED <<sp_dim_size, sp_split_size, sp_splits>>
  /\ UNCHANGED <<poolVars, opVars, shmVars>>
  /\ UNCHANGED <<ptVars, flVars, csVars, catVars>>

\* for (int i = 0; i < num_splits; ++i) {
\*   int64_t length = i < num_splits - 1 ? split_size : last_split_size;
\*   splits[i] = JUST(Narrow(x, dim, i * split_size, length)); }  return splits;
SplitLoop ==
  /\ sp_state = "loop"
  /\ IF sp_i < sp_num_splits
       THEN /\ sp_splits' = Append(sp_splits,
                               [start |-> sp_i * sp_split_size,
                                length |-> IF sp_i < sp_num_splits - 1 THEN sp_split_size
                                           ELSE sp_last_split_size])
            /\ sp_i' = sp_i + 1
            /\ UNCHANGED sp_state
       ELSE /\ sp_state' = "done"
            /\ UNCHANGED <<sp_splits, sp_i>>
  /\ UNCHANGED <<sp_dim_size, sp_split_size, sp_num_splits, sp_last_split_size>>
  /\ UNCHANGED <<poolVars, opVars, shmVars>>
  /\ UNCHANGED <<ptVars, flVars, csVars, catVars>>

SplitNext == SplitCheck \/ SplitCompute \/ SplitLoop

SpecSplit == SplitInit /\ [][SplitNext]_vars

RECURSIVE C30_SumLengths(_)
C30_SumLengths(q) == IF q = <<>> THEN 0 ELSE q[1].length + C30_SumLengths(Tail(q))

\* C30 as claimed: for d >= 0 and every split_size >= 0, chunk i starts at
\* i * split_size, every chunk but the last has length split_size, the last
\* has a length in [0, split_size], the lengths sum to d, and no such input
\* causes an arithmetic fault.
C30_Claim ==
  sp_split_size >= 0 =>
    /\ sp_state # "sigfpe"
    /\ sp_state = "done" =>
         /\ \A k \in 1..Len(sp_splits) :
              /\ sp_splits[k].start = (k - 1) * sp_split_size
              /\ k < Len(sp_splits) => sp_splits[k].length = sp_split_size
         /\ sp_splits # <<>>
         /\ sp_splits[Len(sp_splits)].length \in 0..sp_split_size
         /\ C30_SumLengths(sp_splits) = sp_dim_size

====
